---- MODULE Spec2Model ----
(***************************************************************************)
(* pngx: PNG decoder (one-shot and streaming) and encoder.                 *)
(*                                                                         *)
(* Buffers are sequences of bytes (0..255).  32-bit words (the CRC) are    *)
(* records [hi, lo] of two 16-bit halves, so that no intermediate value    *)
(* leaves the range of the model checker's integers.                       *)
(***************************************************************************)
EXTENDS Integers, Sequences, FiniteSets, TLC

VARIABLES
    input,      \* the PNG byte stream under decode
    origin,     \* where input came from: a crafted stream or an encoded raster
    rd,         \* one-shot decode: SyncReader + Parser + parseSync locals
    result,     \* one-shot decode: what parseSync returned or threw
    ps,         \* streaming decode: ParserAsync (ChunkStream + Parser + pipeline)
    host,       \* streaming decode: what the host has written so far
    enc,        \* streaming encode: PackerAsync and its Deflate stream
    calc        \* a call of one of the library's functions, and what it returned

vars == <<input, origin, rd, result, ps, host, enc, calc>>

----------------------------------------------------------------------------
(* Sequences of bytes *)

Min(a, b) == IF a < b THEN a ELSE b

Max(a, b) == IF a > b THEN a ELSE b

\* buf.slice(from, to) with 0-based from (inclusive) and to (exclusive)
Slice(buf, from, to) ==
    LET f == Min(Max(from, 0), Len(buf))
        t == Min(Max(to, f), Len(buf))
    IN  SubSeq(buf, f + 1, t)

\* buf.slice(from)
SliceFrom(buf, from) == Slice(buf, from, Len(buf))

RECURSIVE Concat(_)
\* Buffer.concat(list)
Concat(list) ==
    IF list = <<>> THEN <<>> ELSE Head(list) \o Concat(Tail(list))

Zeros(n) == [i \in 1..n |-> 0]

\* data[i] with a 0-based index; -1 stands for JavaScript's undefined
At(data, i) == IF i >= 0 /\ i < Len(data) THEN data[i + 1] ELSE -1

\* data.readUInt32BE(off); the streams of this model keep the top byte below
\* 128, so the value stays a non-negative 32-bit integer
ReadUInt32BE(data, off) ==
    ((data[off + 1] * 256 + data[off + 2]) * 256 + data[off + 3]) * 256 + data[off + 4]

\* data.readUInt16BE(off)
ReadUInt16BE(data, off) == data[off + 1] * 256 + data[off + 2]

\* buf.writeUInt32BE(v, off) of a value below 2^31, as the 4 bytes written
WriteUInt32BE(v) ==
    << (v \div 16777216) % 256, (v \div 65536) % 256, (v \div 256) % 256, v % 256 >>

----------------------------------------------------------------------------
(* CRC-32 *)

\* bit p (a power of two) of a ^ b
XorBit(a, b, p) == ((((a \div p) % 2) + ((b \div p) % 2)) % 2) * p

\* a ^ b on bytes
Xor8(a, b) ==
    XorBit(a, b, 1) + XorBit(a, b, 2) + XorBit(a, b, 4) + XorBit(a, b, 8)
        + XorBit(a, b, 16) + XorBit(a, b, 32) + XorBit(a, b, 64) + XorBit(a, b, 128)

\* a ^ b on 16-bit halves
Xor(a, b) == Xor8(a % 256, b % 256) + 256 * Xor8(a \div 256, b \div 256)

Xor32(a, b) == [hi |-> Xor(a.hi, b.hi), lo |-> Xor(a.lo, b.lo)]

\* w >>> n for n in 1..15
Shr32(w, n) ==
    LET p == 2 ^ n
    IN  [hi |-> w.hi \div p, lo |-> (w.lo \div p) + (w.hi % p) * (65536 \div p)]

POLYNOMIAL_HI == 60856

POLYNOMIAL_LO == 33568

\* 0xEDB88320
POLYNOMIAL == [hi |-> POLYNOMIAL_HI, lo |-> POLYNOMIAL_LO]

RECURSIVE CrcTableEntry(_, _)
\* the inner loop of initCrcTable: j more rounds on currentCrc
CrcTableEntry(currentCrc, j) ==
    IF j = 0 THEN currentCrc
    ELSE CrcTableEntry(
            IF currentCrc.lo % 2 = 1
            THEN Xor32(POLYNOMIAL, Shr32(currentCrc, 1))
            ELSE Shr32(currentCrc, 1),
            j - 1)

CRC_TABLE == [i \in 0..255 |-> CrcTableEntry([hi |-> 0, lo |-> i], 8)]

\* -1 as an unsigned 32-bit word
CRC_INITIAL == [hi |-> 65535, lo |-> 65535]

\* one turn of the loop of CrcCalculator.write:
\* CRC_TABLE[(crc ^ byte) & 0xFF] ^ (crc >>> 8)
CrcCalculator_step(crc, byte) ==
    Xor32(CRC_TABLE[Xor8(crc.lo % 256, byte)], Shr32(crc, 8))

RECURSIVE CrcCalculator_write(_, _)
\* CrcCalculator.write: the running _crc after the bytes of data, in order: the
\* first half of data, then the second half from the value the first half left
\* (the comparison makes the evaluation take them in that order)
CrcCalculator_write(crc, data) ==
    IF Len(data) = 0 THEN crc
    ELSE IF Len(data) = 1 THEN CrcCalculator_step(crc, data[1])
    ELSE LET h     == Len(data) \div 2
             first == CrcCalculator_write(crc, SubSeq(data, 1, h))
         IN  IF first = CRC_INITIAL /\ h < 0 THEN first
             ELSE CrcCalculator_write(first, SubSeq(data, h + 1, Len(data)))

\* a variant without the final inversion
CrcCalculator_crc32_running(crc) == crc

\* CrcCalculator.crc32(): _crc ^ -1
CrcCalculator_crc32(crc) == Xor32(crc, CRC_INITIAL)

\* static CrcCalculator.crc32(buf)
CrcCalculator_static_crc32(buf) ==
    Xor32(CrcCalculator_write(CRC_INITIAL, buf), CRC_INITIAL)

\* buf.writeInt32BE(crc) / data.readInt32BE(0): the word as 4 big-endian bytes
WordBytes(w) == << w.hi \div 256, w.hi % 256, w.lo \div 256, w.lo % 256 >>

BytesWord(data) ==
    [hi |-> data[1] * 256 + data[2], lo |-> data[3] * 256 + data[4]]

----------------------------------------------------------------------------
(* constants.ts *)

PNG_SIGNATURE == <<137, 80, 78, 71, 13, 10, 26, 10>>

TYPE_IHDR == <<73, 72, 68, 82>>

TYPE_IEND == <<73, 69, 78, 68>>

TYPE_IDAT == <<73, 68, 65, 84>>

TYPE_PLTE == <<80, 76, 84, 69>>

TYPE_tRNS == <<116, 82, 78, 83>>

TYPE_gAMA == <<103, 65, 77, 65>>

COLORTYPE_GRAYSCALE == 0

COLORTYPE_PALETTE == 1

COLORTYPE_COLOR == 2

COLORTYPE_ALPHA == 4

COLORTYPE_PALETTE_COLOR == 3

COLORTYPE_COLOR_ALPHA == 6

\* COLORTYPE_TO_BPP_MAP, as a function on the colour types it has keys for
GAMMA_DIVISION == 100000

COLORTYPE_TO_BPP_MAP == (0 :> 1) @@ (2 :> 3) @@ (3 :> 1) @@ (4 :> 2) @@ (6 :> 4)

----------------------------------------------------------------------------
(* The deflate/inflate collaborator (node:zlib).  A deflated stream is the  *)
(* data behind a one-byte stream header; inflating a stream that does not   *)
(* start with the header fails.                                             *)

ZLIB_HEADER == <<120>>

\* Z_MIN_CHUNK of node:zlib
Z_MIN_CHUNK == 64

\* deflateSync(data)
Deflate(data) == ZLIB_HEADER \o data

\* zlib.inflateSync(buffer): the whole inflated stream
ZlibInflate(buffer) ==
    IF buffer = <<>> \/ <<Head(buffer)>> # ZLIB_HEADER
    THEN [thrown |-> "inflate failed", out |-> <<>>]
    ELSE [thrown |-> "none", out |-> Tail(buffer)]

\* sync-inflate inflateSync(buffer, {chunkSize, maxLength}): at most maxLength
\* bytes of the inflated stream
InflateSync(buffer, maxLength) ==
    LET r == ZlibInflate(buffer)
    IN  [thrown |-> r.thrown, out |-> Slice(r.out, 0, maxLength)]

----------------------------------------------------------------------------
(* sync-inflate.ts: the Inflate engine over the zlib handle, on a stream    *)
(* that is well formed                                                      *)

\* new Inflate(opts)._chunkSize; a chunkSize of 0 is an option that is not given
Inflate_chunkSize(chunkSize) ==
    IF chunkSize = 0 THEN 16 * 1024
    ELSE IF chunkSize < Z_MIN_CHUNK THEN Z_MIN_CHUNK
    ELSE chunkSize

\* this._handle.writeSync(flushFlag, chunk, inOff, inLen, buffer, offset, outLen):
\* the handle reads what the chunk holds from inOff on, the stream header first,
\* writes at most outLen bytes, and reports what is left of inLen and of outLen
Handle_writeSync(chunk, inOff, inLen, outLen) ==
    LET avail   == Slice(chunk, inOff, inOff + inLen)
        payload == IF inOff = 0 /\ avail # <<>> THEN Tail(avail) ELSE avail
        have    == Min(Len(payload), outLen)
    IN  [availInAfter  |-> inLen - (Len(avail) - Len(payload)) - have,
         availOutAfter |-> outLen - have,
         out           |-> Slice(payload, 0, have)]

RECURSIVE Inflate_writeLoop(_, _, _, _, _, _)
\* the do-while loop of _processChunk with handleChunk: availInBefore,
\* availOutBefore and leftToInflate are constants of the call; this._offset is 0
\* at every writeSync. maxLength -1 is an option that is not given. A writeSync
\* whose inOff + inLen lies behind the end of the chunk ends the process where
\* the binding checks its bounds, and reads to the end of the stream where it
\* does not.
Inflate_writeLoop(chunk, chunkSize, maxLength, bounds, inOff, buffers) ==
    LET availInBefore  == Len(chunk)
        availOutBefore == chunkSize
        handled(res) ==
            LET out  == IF maxLength >= 0 /\ Len(res.out) > maxLength
                        THEN Slice(res.out, 0, maxLength)
                        ELSE res.out
                kept == IF Len(res.out) > 0 THEN buffers \o out ELSE buffers
            IN  IF Len(res.out) > 0 /\ maxLength >= 0 /\ maxLength - Len(out) = 0
                THEN [thrown |-> "none", out |-> kept]
                ELSE IF res.availOutAfter = 0
                THEN Inflate_writeLoop(chunk, chunkSize, maxLength, bounds,
                                       inOff + (availInBefore - res.availInAfter), kept)
                ELSE [thrown |-> "none", out |-> kept]
    IN  IF bounds = "checked" /\ inOff + availInBefore > Len(chunk)
        THEN [thrown |-> "aborted", out |-> <<>>]
        ELSE handled(Handle_writeSync(chunk, inOff, availInBefore, availOutBefore))

\* Inflate._processChunk(chunk, flushFlag) without a callback
Inflate_processChunk(chunk, chunkSize, maxLength, bounds) ==
    Inflate_writeLoop(chunk, chunkSize, maxLength, bounds, 0, <<>>)

\* inflateSync(buffer, {chunkSize, maxLength})
inflateSync(buffer, chunkSize, maxLength, bounds) ==
    Inflate_processChunk(buffer, Inflate_chunkSize(chunkSize), maxLength, bounds)

----------------------------------------------------------------------------
(* paeth-predictor.ts *)

Abs(x) == IF x < 0 THEN -x ELSE x

\* a variant that compares the differences with their signs
paethPredictor_signed(left, above, upLeft) ==
    LET paeth == left + above - upLeft
    IN  IF paeth - left <= paeth - above /\ paeth - left <= paeth - upLeft THEN left
        ELSE IF paeth - above <= paeth - upLeft THEN above
        ELSE upLeft

paethPredictor(left, above, upLeft) ==
    LET paeth   == left + above - upLeft
        pLeft   == Abs(paeth - left)
        pAbove  == Abs(paeth - above)
        pUpLeft == Abs(paeth - upLeft)
    IN  IF pLeft <= pAbove /\ pLeft <= pUpLeft THEN left
        ELSE IF pAbove <= pUpLeft THEN above
        ELSE upLeft

----------------------------------------------------------------------------
(* interlace.ts *)

imagePasses ==
    << [x |-> <<0>>,                      y |-> <<0>>],
       [x |-> <<4>>,                      y |-> <<0>>],
       [x |-> <<0, 4>>,                   y |-> <<4>>],
       [x |-> <<2, 6>>,                   y |-> <<0, 4>>],
       [x |-> <<0, 2, 4, 6>>,             y |-> <<2, 6>>],
       [x |-> <<1, 3, 5, 7>>,             y |-> <<0, 2, 4, 6>>],
       [x |-> <<0, 1, 2, 3, 4, 5, 6, 7>>, y |-> <<1, 3, 5, 7>>] >>

RECURSIVE LeadingBelow(_, _)
\* the loops over pass.x / pass.y: the offsets counted before the first one
\* that is not below leftOver
LeadingBelow(offsets, leftOver) ==
    IF offsets = <<>> \/ ~(Head(offsets) < leftOver) THEN 0
    ELSE 1 + LeadingBelow(Tail(offsets), leftOver)

RECURSIVE ImagePassesFrom(_, _, _)
ImagePassesFrom(width, height, i) ==
    IF i > Len(imagePasses) THEN <<>>
    ELSE LET pass       == imagePasses[i]
             xLeftOver  == width % 8
             yLeftOver  == height % 8
             xRepeats   == (width - xLeftOver) \div 8
             yRepeats   == (height - yLeftOver) \div 8
             passWidth  == xRepeats * Len(pass.x) + LeadingBelow(pass.x, xLeftOver)
             passHeight == yRepeats * Len(pass.y) + LeadingBelow(pass.y, yLeftOver)
             rest       == ImagePassesFrom(width, height, i + 1)
         IN  IF passWidth > 0 /\ passHeight > 0
             THEN <<[width |-> passWidth, height |-> passHeight, index |-> i - 1]>> \o rest
             ELSE rest

\* getImagePasses(width, height); index is the 0-based pass number
getImagePasses(width, height) == ImagePassesFrom(width, height, 1)

\* a variant that takes a row of the image to be as wide as a block
getInterlaceIterator_blockRow(width, x, y, pass) ==
    LET currentPass == imagePasses[pass + 1]
    IN  ((x \div Len(currentPass.x)) * 8 + currentPass.x[(x % Len(currentPass.x)) + 1]) * 4
            + ((y \div Len(currentPass.y)) * 8 + currentPass.y[(y % Len(currentPass.y)) + 1])
                * 8 * 4

\* getInterlaceIterator(width)(x, y, pass)
getInterlaceIterator(width, x, y, pass) ==
    LET currentPass     == imagePasses[pass + 1]
        outerXLeftOver  == x % Len(currentPass.x)
        outerYLeftOver  == y % Len(currentPass.y)
        outerX == ((x - outerXLeftOver) \div Len(currentPass.x)) * 8
                    + currentPass.x[outerXLeftOver + 1]
        outerY == ((y - outerYLeftOver) \div Len(currentPass.y)) * 8
                    + currentPass.y[outerYLeftOver + 1]
    IN  outerX * 4 + outerY * width * 4

----------------------------------------------------------------------------
(* filter-parse.ts: the scanline filter reverser *)

\* a variant that rounds the bytes of a line down
getByteWidth_floor(width, bpp, depth) ==
    IF depth # 8 THEN (width * bpp * depth) \div 8 ELSE width * bpp

\* getByteWidth(width, bpp, depth): Math.ceil(width * bpp / (8 / depth))
getByteWidth(width, bpp, depth) ==
    IF depth # 8 THEN (width * bpp * depth + 7) \div 8 ELSE width * bpp

\* Filter constructor: this._images
Filter_images(bitmapInfo) ==
    IF bitmapInfo.interlace
    THEN LET passes == getImagePasses(bitmapInfo.width, bitmapInfo.height)
         IN  [i \in 1..Len(passes) |->
                [byteWidth |-> getByteWidth(passes[i].width, bitmapInfo.bpp, bitmapInfo.depth),
                 height    |-> passes[i].height]]
    ELSE <<[byteWidth |-> getByteWidth(bitmapInfo.width, bitmapInfo.bpp, bitmapInfo.depth),
            height    |-> bitmapInfo.height]>>

\* Filter constructor: this._xComparison
Filter_xComparison(bitmapInfo) ==
    IF bitmapInfo.depth = 8 THEN bitmapInfo.bpp
    ELSE IF bitmapInfo.depth = 16 THEN bitmapInfo.bpp * 2
    ELSE 1

\* _unFilterType1.._unFilterType4: what is added to the raw byte at x.  lastLine
\* is <<>> when this._lastLine is null.
\* a variant that takes the byte before x as the left neighbour, whatever the
\* width of a pixel
UnFilterAdd_byteLeft(filter, unfilteredLine, lastLine, xComparison, x) ==
    LET left   == IF x > 0 THEN unfilteredLine[x] ELSE 0
        up     == IF lastLine # <<>> THEN lastLine[x + 1] ELSE 0
        upLeft == IF x > 0 /\ lastLine # <<>> THEN lastLine[x] ELSE 0
    IN  CASE filter = 1 -> left
          [] filter = 2 -> up
          [] filter = 3 -> (left + up) \div 2
          [] filter = 4 -> paethPredictor(left, up, upLeft)

UnFilterAdd(filter, unfilteredLine, lastLine, xComparison, x) ==
    LET xBiggerThan == xComparison - 1
        left   == IF x > xBiggerThan THEN unfilteredLine[x - xComparison + 1] ELSE 0
        up     == IF lastLine # <<>> THEN lastLine[x + 1] ELSE 0
        upLeft == IF x > xBiggerThan /\ lastLine # <<>>
                  THEN lastLine[x - xComparison + 1] ELSE 0
    IN  CASE filter = 1 -> left
          [] filter = 2 -> up
          [] filter = 3 -> (left + up) \div 2
          [] filter = 4 -> paethPredictor(left, up, upLeft)

RECURSIVE UnFilterLine(_, _, _, _, _, _)
\* the loop over x of an _unFilterType, from x = Len(unfilteredLine) up to to:
\* unfilteredLine (a Buffer, so modulo 256) grown byte by byte, the lower half
\* of the range before the upper half
UnFilterLine(filter, rawData, lastLine, xComparison, to, unfilteredLine) ==
    LET x == Len(unfilteredLine)
    IN  IF x >= to THEN unfilteredLine
        ELSE IF to - x = 1
        THEN Append(unfilteredLine,
                    (rawData[x + 2]
                        + UnFilterAdd(filter, unfilteredLine, lastLine, xComparison, x)) % 256)
        ELSE LET mid   == x + ((to - x) \div 2)
                 lower == UnFilterLine(filter, rawData, lastLine, xComparison, mid,
                                       unfilteredLine)
             IN  IF Len(lower) # mid THEN lower
                 ELSE UnFilterLine(filter, rawData, lastLine, xComparison, to, lower)

\* _reverseFilterLine: the unfiltered line of rawData (filter byte first)
Filter_reverseFilterLine(rawData, lastLine, xComparison, byteWidth) ==
    IF rawData[1] = 0 THEN Slice(rawData, 1, byteWidth + 1)
    ELSE UnFilterLine(rawData[1], rawData, lastLine, xComparison, byteWidth, <<>>)

RECURSIVE FilterRun_keepsLastLine(_, _, _, _, _, _, _)
\* a variant that takes the last line of an image for the line before the
\* first line of the next image
FilterRun_keepsLastLine(buffer, images, xComparison, imageIndex, lineIndex, lastLine, out) ==
    IF imageIndex > Len(images)
    THEN [thrown |-> IF Len(buffer) > 0 THEN "Unrecognized content at end of stream"
                     ELSE "none",
          out |-> out, rest |-> buffer, reads |-> <<>>, complete |-> TRUE]
    ELSE LET byteWidth == images[imageIndex].byteWidth
             demanded(run) == [run EXCEPT !.reads = <<byteWidth + 1>> \o @]
         IN  IF Len(buffer) < byteWidth + 1
             THEN [thrown |-> "There are some read requests waiting on finished stream",
                   out |-> out, rest |-> buffer, reads |-> <<byteWidth + 1>>,
                   complete |-> FALSE]
             ELSE IF buffer[1] > 4
             THEN [thrown |-> "Unrecognized filter type", out |-> out, rest |-> buffer,
                   reads |-> <<byteWidth + 1>>, complete |-> FALSE]
             ELSE LET line == Filter_reverseFilterLine(
                                 Slice(buffer, 0, byteWidth + 1),
                                 IF lastLine = <<>> THEN <<>>
                                 ELSE [x \in 1..byteWidth |->
                                          IF x <= Len(lastLine) THEN lastLine[x] ELSE 0],
                                 xComparison, byteWidth)
                      last == lineIndex + 1 >= images[imageIndex].height
                  IN  demanded(FilterRun_keepsLastLine(
                                    SliceFrom(buffer, byteWidth + 1), images, xComparison,
                                    IF last THEN imageIndex + 1 ELSE imageIndex,
                                    IF last THEN 0 ELSE lineIndex + 1,
                                    line,
                                    out \o line))

RECURSIVE FilterRun(_, _, _, _, _, _, _)
\* processSync's reader.process() with the Filter's reads: one demand of
\* byteWidth + 1 bytes per scanline, until every line of every image is read.
\* Returns what was written, what is left of the buffer, what was thrown, the
\* lengths of the demands the Filter made from here on and whether complete()
\* was called.
FilterRun(buffer, images, xComparison, imageIndex, lineIndex, lastLine, out) ==
    IF imageIndex > Len(images)
    THEN \* complete(): no demand is left
         [thrown |-> IF Len(buffer) > 0 THEN "Unrecognized content at end of stream"
                     ELSE "none",
          out |-> out, rest |-> buffer, reads |-> <<>>, complete |-> TRUE]
    ELSE LET byteWidth == images[imageIndex].byteWidth
             demanded(run) == [run EXCEPT !.reads = <<byteWidth + 1>> \o @]
         IN  IF Len(buffer) < byteWidth + 1
             THEN [thrown |-> "There are some read requests waiting on finished stream",
                   out |-> out, rest |-> buffer, reads |-> <<byteWidth + 1>>,
                   complete |-> FALSE]
             ELSE IF buffer[1] > 4
             THEN [thrown |-> "Unrecognized filter type", out |-> out, rest |-> buffer,
                   reads |-> <<byteWidth + 1>>, complete |-> FALSE]
             ELSE LET line == Filter_reverseFilterLine(
                                 Slice(buffer, 0, byteWidth + 1), lastLine, xComparison, byteWidth)
                      last == lineIndex + 1 >= images[imageIndex].height
                  IN  demanded(FilterRun(SliceFrom(buffer, byteWidth + 1), images, xComparison,
                                         IF last THEN imageIndex + 1 ELSE imageIndex,
                                         IF last THEN 0 ELSE lineIndex + 1,
                                         IF last THEN <<>> ELSE line,
                                         out \o line))

\* filter-parse-sync processSync(inBuffer, bitmapInfo).  With no image to read
\* (an interlaced image with a zero dimension) start() fails on this._images[0].
processSync(inBuffer, bitmapInfo) ==
    LET images == Filter_images(bitmapInfo)
    IN  IF images = <<>>
        THEN [thrown |-> "TypeError", out |-> <<>>, rest |-> inBuffer, reads |-> <<>>,
              complete |-> FALSE]
        ELSE FilterRun(inBuffer, images, Filter_xComparison(bitmapInfo), 1, 0, <<>>, <<>>)

----------------------------------------------------------------------------
(* bitmapper.ts: unfiltered scanlines to an RGBA plane *)

\* pxData[pxPos .. pxPos + 3] = px; a typed array ignores a write outside it
WritePixel(pxData, pxPos, px) ==
    SubSeq([i \in 1..Len(pxData) |->
                IF i > pxPos /\ i <= pxPos + 4 THEN px[i - pxPos] ELSE pxData[i]],
           1, Len(pxData))

\* getPxPos(x, y, pass) of dataToBitMap; k counts the calls made so far, which is
\* what nonInterlacedPxPos holds divided by 4
getPxPos(bitmapInfo, image, k) ==
    IF bitmapInfo.interlace
    THEN getInterlaceIterator(bitmapInfo.width, k % image.width, k \div image.width, image.index)
    ELSE 4 * k

\* pixelBppMapper[bpp]: whether it throws 'Ran out of data' at rawPos
pixelBppMapper_ranOut(bpp, data, rawPos) ==
    IF bpp = 1 THEN rawPos = Len(data) ELSE rawPos + (bpp - 1) >= Len(data)

\* pixelBppMapper[bpp]: the RGBA written for the pixel at rawPos (depth 8)
pixelBppMapper(bpp, data, rawPos) ==
    CASE bpp = 1 -> <<At(data, rawPos), At(data, rawPos), At(data, rawPos), 255>>
      [] bpp = 2 -> <<At(data, rawPos), At(data, rawPos), At(data, rawPos), At(data, rawPos + 1)>>
      [] bpp = 3 -> <<At(data, rawPos), At(data, rawPos + 1), At(data, rawPos + 2), 255>>
      [] bpp = 4 -> <<At(data, rawPos), At(data, rawPos + 1), At(data, rawPos + 2),
                      At(data, rawPos + 3)>>

\* pixelBppCustomMapper[bpp]: the RGBA written for the samples pixelData
pixelBppCustomMapper(bpp, pixelData, maxBit) ==
    CASE bpp = 1 -> <<pixelData[1], pixelData[1], pixelData[1], maxBit>>
      [] bpp = 2 -> <<pixelData[1], pixelData[1], pixelData[1], pixelData[2]>>
      [] bpp = 3 -> <<pixelData[1], pixelData[2], pixelData[3], maxBit>>
      [] bpp = 4 -> <<pixelData[1], pixelData[2], pixelData[3], pixelData[4]>>

RECURSIVE mapImage8Bit(_, _, _, _, _, _)
\* st = [pxData, rawPos, thrown]; the pixels k .. to - 1 of the image in scan
\* order, the lower half of the range before the upper half
mapImage8Bit(image, st, bitmapInfo, data, k, to) ==
    IF k >= to \/ st.thrown # "none" THEN st
    ELSE IF to - k = 1
    THEN IF pixelBppMapper_ranOut(bitmapInfo.bpp, data, st.rawPos)
         THEN [st EXCEPT !.thrown = "Ran out of data"]
         ELSE [pxData |-> WritePixel(st.pxData, getPxPos(bitmapInfo, image, k),
                                     pixelBppMapper(bitmapInfo.bpp, data, st.rawPos)),
               rawPos |-> st.rawPos + bitmapInfo.bpp,
               thrown |-> "none"]
    ELSE LET mid   == k + ((to - k) \div 2)
             lower == mapImage8Bit(image, st, bitmapInfo, data, k, mid)
         IN  IF lower.thrown # "none" THEN lower
             ELSE mapImage8Bit(image, lower, bitmapInfo, data, mid, to)

\* createBitRetriever: the bytes split() takes for one line of n samples; the
\* left-over samples of the last byte are dropped by resetAfterLine
BitRetriever_lineBytes(depth, n) ==
    IF depth = 16 THEN 2 * n ELSE (n * depth + 7) \div 8

\* createBitRetriever: sample s (0-based) of the line whose bytes start at i,
\* most significant bits first, 16-bit samples big-endian
BitRetriever_sample(data, i, depth, s) ==
    IF depth = 16 THEN data[i + 2 * s + 1] * 256 + data[i + 2 * s + 2]
    ELSE LET per  == 8 \div depth
             byte == data[i + (s \div per) + 1]
         IN  (byte \div (2 ^ (8 - depth * ((s % per) + 1)))) % (2 ^ depth)

RECURSIVE mapLineCustomBit(_, _, _, _, _, _, _, _)
\* the inner loop of mapImageCustomBit for line y, whose bytes start at i: the
\* pixels x .. to - 1, the lower half of the range before the upper half
mapLineCustomBit(image, pxData, bitmapInfo, data, i, y, x, to) ==
    IF x >= to THEN pxData
    ELSE IF to - x = 1
    THEN WritePixel(pxData, getPxPos(bitmapInfo, image, y * image.width + x),
            pixelBppCustomMapper(bitmapInfo.bpp,
                [c \in 1..bitmapInfo.bpp |->
                    BitRetriever_sample(data, i, bitmapInfo.depth,
                                        x * bitmapInfo.bpp + (c - 1))],
                (2 ^ bitmapInfo.depth) - 1))
    ELSE LET mid   == x + ((to - x) \div 2)
             lower == mapLineCustomBit(image, pxData, bitmapInfo, data, i, y, x, mid)
         IN  IF Len(lower) # Len(pxData) THEN lower
             ELSE mapLineCustomBit(image, lower, bitmapInfo, data, i, y, mid, to)

RECURSIVE mapImageCustomBit(_, _, _, _, _)
\* st = [pxData, rawPos, thrown], rawPos being the retriever's byte index i; y
\* lines of the image are mapped already.  split() throws when a line needs a
\* byte the data does not have.
mapImageCustomBit(image, st, bitmapInfo, data, y) ==
    IF y >= image.height \/ st.thrown # "none" THEN st
    ELSE LET n == BitRetriever_lineBytes(bitmapInfo.depth, image.width * bitmapInfo.bpp)
         IN  IF st.rawPos + n > Len(data)
             THEN [st EXCEPT !.thrown = "Ran out of data"]
             ELSE mapImageCustomBit(image,
                    [pxData |-> mapLineCustomBit(image, st.pxData, bitmapInfo, data,
                                                 st.rawPos, y, 0, image.width),
                     rawPos |-> st.rawPos + n,
                     thrown |-> "none"],
                    bitmapInfo, data, y + 1)

RECURSIVE mapImages(_, _, _, _)
\* the loop over the image passes of dataToBitMap
mapImages(images, st, bitmapInfo, data) ==
    IF images = <<>> THEN st
    ELSE mapImages(Tail(images),
            IF bitmapInfo.depth = 8
            THEN mapImage8Bit(Head(images), st, bitmapInfo, data, 0,
                              Head(images).width * Head(images).height)
            ELSE mapImageCustomBit(Head(images), st, bitmapInfo, data, 0),
            bitmapInfo, data)

\* dataToBitMap(data, bitmapInfo): [thrown, pxData]; pxData holds width*height*4
\* samples, bytes for depth <= 8 and 16-bit words for depth 16
dataToBitMap(data, bitmapInfo) ==
    LET images == IF bitmapInfo.interlace
                  THEN getImagePasses(bitmapInfo.width, bitmapInfo.height)
                  ELSE <<[width |-> bitmapInfo.width, height |-> bitmapInfo.height, index |-> 0]>>
        \* st: the plane, the read position and what was thrown after the loops
        done(st) ==
            [thrown |-> IF st.thrown # "none" THEN st.thrown
                        ELSE IF st.rawPos # Len(data) THEN "Extra data found"
                        ELSE "none",
             pxData |-> st.pxData]
    IN  done(mapImages(images,
                       [pxData |-> Zeros(bitmapInfo.width * bitmapInfo.height * 4),
                        rawPos |-> 0, thrown |-> "none"],
                       bitmapInfo, data))

----------------------------------------------------------------------------
(* format-normalizer: palette lookup, transparent colour, depth scaling *)

\* Buffer.from(bitmapData.buffer): the bytes under the pixel plane.  A Buffer is
\* its own bytes; a Uint16Array shows two bytes per sample, low byte first on
\* the little-endian hosts the library runs on.
ArrayBufferBytes(pxData, depth) ==
    IF depth <= 8 THEN pxData
    ELSE [i \in 1..(2 * Len(pxData)) |->
            IF i % 2 = 1 THEN pxData[(i + 1) \div 2] % 256
            ELSE pxData[i \div 2] \div 256]

\* dePalette: the first index that is not in the palette, or -1
dePalette_missing(indata, width, height, palette) ==
    LET bad == {k \in 0..(width * height - 1) :
                    At(indata, 4 * k) < 0 \/ At(indata, 4 * k) >= Len(palette)}
    IN  IF bad = {} THEN -1 ELSE CHOOSE k \in bad : \A j \in bad : k <= j

\* dePalette: outdata is indata with every pixel replaced by its palette colour
dePalette(indata, width, height, palette) ==
    [i \in 1..Len(indata) |->
        IF i <= 4 * width * height
        THEN palette[indata[4 * ((i - 1) \div 4) + 1] + 1][((i - 1) % 4) + 1]
        ELSE indata[i]]

\* replaceTransparentColor: whether the pixel at pxPos is the transparent colour
makeTrans(indata, pxPos, transColor) ==
    IF Len(transColor) = 1 THEN transColor[1] = At(indata, pxPos)
    ELSE /\ transColor[1] = At(indata, pxPos)
         /\ transColor[2] = At(indata, pxPos + 1)
         /\ transColor[3] = At(indata, pxPos + 2)

replaceTransparentColor(indata, width, height, transColor) ==
    [i \in 1..Len(indata) |->
        IF i <= 4 * width * height /\ makeTrans(indata, 4 * ((i - 1) \div 4), transColor)
        THEN 0 ELSE indata[i]]

\* Math.floor(v * 255 / maxInSample + 0.5), stored in a byte
scaleSample(v, depth) ==
    LET maxInSample == (2 ^ depth) - 1
    IN  ((2 * v * 255 + maxInSample) \div (2 * maxInSample)) % 256

\* scaleDepth into outdata, which is indata itself or a fresh width*height*4 buffer
scaleDepth(indata, outdata, width, height, depth) ==
    [i \in 1..Len(outdata) |->
        IF i <= 4 * width * height /\ i <= Len(indata)
        THEN scaleSample(indata[i], depth)
        ELSE IF i <= 4 * width * height THEN 0 ELSE outdata[i]]

\* normalizeFormat(indata, imageData, skipRescale): [thrown, out].  imageData.palette
\* is <<>> and imageData.transColor is <<>> when the field is absent.
normalizeFormat(indata, imageData, skipRescale) ==
    IF imageData.colorType = 3 /\ imageData.hasPalette
    THEN IF dePalette_missing(indata, imageData.width, imageData.height, imageData.palette) >= 0
         THEN [thrown |-> "Index not in palette", out |-> <<>>]
         ELSE [thrown |-> "none",
               out |-> dePalette(indata, imageData.width, imageData.height, imageData.palette)]
    ELSE LET replaced == IF imageData.transColor # <<>>
                         THEN replaceTransparentColor(indata, imageData.width,
                                                      imageData.height, imageData.transColor)
                         ELSE indata
         IN  [thrown |-> "none",
              out |-> IF imageData.depth # 8 /\ ~skipRescale
                      THEN scaleDepth(replaced,
                                      IF imageData.depth = 16
                                      THEN Zeros(imageData.width * imageData.height * 4)
                                      ELSE replaced,
                                      imageData.width, imageData.height, imageData.depth)
                      ELSE replaced]

----------------------------------------------------------------------------
(* A decode in progress.                                                   *)
(*                                                                         *)
(* One record holds a Parser, the reader it is wired to and what its       *)
(* callbacks have collected.  wiring = "sync" is parseSync (SyncReader and *)
(* the callbacks object of parseSync); wiring = "async" is ParserAsync (a  *)
(* ChunkStream whose methods are the callbacks).                           *)

NoMetaData ==
    [width |-> 0, height |-> 0, depth |-> 0, interlace |-> FALSE, palette |-> FALSE,
     color |-> FALSE, alpha |-> FALSE, bpp |-> 0, colorType |-> 0]

NewContext(wiring, buffer, options) ==
    [wiring |-> wiring,
     \* Parser._options, ParserAsync._options
     checkCRC |-> options.checkCRC, skipRescale |-> options.skipRescale,
     \* SyncReader
     buffer |-> buffer,
     \* SyncReader._reads / ChunkStream._reads: [length, allowLess, func, arg]
     reads |-> <<>>,
     \* ChunkStream
     buffers |-> <<>>, buffered |-> 0, paused |-> FALSE,
     writable |-> TRUE, destroyed |-> FALSE, ticks |-> 0,
     \* Parser
     hasIHDR |-> FALSE, hasIEND |-> FALSE, emittedHeadersFinished |-> FALSE,
     palette |-> <<>>, colorType |-> 0, crc |-> CRC_INITIAL,
     \* the calls the Parser made on its dependencies, in order
     events |-> <<>>,
     \* the demands answered so far with what they were answered: [length,
     \* allowLess, data]
     served |-> <<>>,
     \* the demands a client of a bare ChunkStream has still to make
     plan |-> <<>>,
     \* whether the dependencies hold a finished callback: parseSync gives none
     finishedGiven |-> wiring # "sync",
     \* an exception that left the Parser
     thrown |-> "none",
     \* parseSync locals / ParserAsync fields
     err |-> "none", hasMeta |-> FALSE, metaData |-> NoMetaData, paletteSet |-> FALSE,
     transColor |-> <<>>, gamma |-> -1, inflateDataList |-> <<>>,
     \* ParserAsync: errord, the zlib Inflate stream and the FilterAsync
     errord |-> FALSE,
     inflateMade |-> FALSE, inflatePending |-> <<>>, inflateStarted |-> FALSE,
     inflateEnd |-> FALSE, inflateEndEmitted |-> FALSE, inflateDead |-> FALSE,
     leftToInflate |-> 0,
     filterMade |-> FALSE, filterIn |-> <<>>, filterComplete |-> FALSE, filterDead |-> FALSE,
     \* what ParserAsync emitted, in order: [ev, msg, val]
     emitted |-> <<>>]

\* record a call on a dependency
Called(ctx, ev, val, msg) ==
    [ctx EXCEPT !.events = Append(@, [ev |-> ev, val |-> val, msg |-> msg])]

\* this.emit(ev, ...)
Emit(ctx, ev, msg, val) ==
    [ctx EXCEPT !.emitted = Append(@, [ev |-> ev, msg |-> msg, val |-> val])]

\* metaData as the numbers that identify it
MetaVal(md) ==
    <<md.width, md.height, md.depth, md.colorType, IF md.interlace THEN 1 ELSE 0,
      md.bpp, IF md.palette THEN 1 ELSE 0, IF md.color THEN 1 ELSE 0,
      IF md.alpha THEN 1 ELSE 0>>

\* the image description handed to the filter, the bitmapper and the normaliser:
\* metaData with the palette and transColor that the callbacks stored on it
ImageInfo(ctx) ==
    [width |-> ctx.metaData.width, height |-> ctx.metaData.height,
     depth |-> ctx.metaData.depth, bpp |-> ctx.metaData.bpp,
     interlace |-> ctx.metaData.interlace, colorType |-> ctx.metaData.colorType,
     hasPalette |-> ctx.paletteSet \/ ctx.metaData.palette,
     palette |-> IF ctx.paletteSet THEN ctx.palette ELSE <<>>,
     transColor |-> ctx.transColor]

\* ((width * bpp * depth + 7) >> 3) + 1 times height
ImageSize(md) == (((md.width * md.bpp * md.depth + 7) \div 8) + 1) * md.height

----------------------------------------------------------------------------
(* parseSync: the callbacks object and SyncReader.read *)

SyncReader_read(ctx, length, func, arg) ==
    [ctx EXCEPT !.reads = Append(@, [length |-> Abs(length), allowLess |-> length < 0,
                                     func |-> func, arg |-> arg])]

Sync_error(ctx, msg) == [ctx EXCEPT !.err = msg]

Sync_metadata(ctx, md) ==
    [ctx EXCEPT !.hasMeta = TRUE, !.metaData = md, !.paletteSet = FALSE, !.transColor = <<>>]

Sync_gamma(ctx, g) == [ctx EXCEPT !.gamma = g]

Sync_palette(ctx) == IF ctx.hasMeta THEN [ctx EXCEPT !.paletteSet = TRUE] ELSE ctx

Sync_transColor(ctx, tc) == IF ctx.hasMeta THEN [ctx EXCEPT !.transColor = tc] ELSE ctx

Sync_inflateData(ctx, data) == [ctx EXCEPT !.inflateDataList = Append(@, data)]

Sync_simpleTransparency(ctx) ==
    IF ctx.hasMeta THEN [ctx EXCEPT !.metaData.alpha = TRUE] ELSE ctx

----------------------------------------------------------------------------
(* ParserAsync: ChunkStream.read, ChunkStream.destroy and the callbacks *)

\* ChunkStream.read: queue the demand and schedule a _process on the next tick.
\* After destroy() _reads is null and nothing is queued.
ChunkStream_read(ctx, length, func, arg) ==
    [ctx EXCEPT !.reads = IF ctx.destroyed THEN @
                          ELSE Append(@, [length |-> Abs(length), allowLess |-> length < 0,
                                          func |-> func, arg |-> arg]),
                !.ticks = @ + 1]

\* ChunkStream.destroy
ChunkStream_destroy(ctx) ==
    IF ctx.destroyed THEN ctx
    ELSE Emit([ctx EXCEPT !.writable = FALSE, !.reads = <<>>, !.buffers = <<>>,
                          !.destroyed = TRUE],
              "close", "", <<>>)

\* a variant of callbacks.read that hands every demand of the Parser to the
\* ChunkStream
ParserAsync_read_forwarding(ctx, length, func, arg) ==
    ChunkStream_read(ctx, length, func, arg)

\* callbacks.read of ParserAsync is "() => this.read.bind(this)": called with
\* (length, callback) it builds a bound function, drops it and returns; no
\* demand reaches the ChunkStream
ParserAsync_read(ctx, length, func, arg) == ctx

ParserAsync_handleError(ctx, msg) ==
    [ChunkStream_destroy([Emit(ctx, "error", msg, <<>>) EXCEPT !.writable = FALSE])
        EXCEPT !.inflateDead = @ \/ ctx.inflateMade,
               !.filterDead = @ \/ ctx.filterMade,
               !.errord = TRUE]

\* _inflateData: create the Inflate stream on the first piece, then write to it;
\* the stream works on later ticks.  leftToInflate is -1 for an interlaced
\* image, which has no limit.
ParserAsync_inflateData(ctx, data) ==
    LET made == IF ctx.inflateMade THEN ctx
                ELSE [ctx EXCEPT !.inflateMade = TRUE,
                                 !.leftToInflate = IF ctx.metaData.interlace THEN -1
                                                   ELSE ImageSize(ctx.metaData)]
    IN  IF made.inflateDead \/ made.inflateEnd THEN made
        ELSE [made EXCEPT !.inflatePending = @ \o data]

ParserAsync_handleMetaData(ctx, md) ==
    [ctx EXCEPT !.hasMeta = TRUE, !.metaData = md, !.paletteSet = FALSE, !.transColor = <<>>,
                !.filterMade = TRUE, !.filterIn = <<>>, !.filterComplete = FALSE,
                !.filterDead = FALSE]

ParserAsync_handleTransColor(ctx, tc) == [ctx EXCEPT !.transColor = tc]

ParserAsync_handlePalette(ctx) == [ctx EXCEPT !.paletteSet = TRUE]

ParserAsync_simpleTransparency(ctx) == [ctx EXCEPT !.metaData.alpha = TRUE]

ParserAsync_headersFinished(ctx) == Emit(ctx, "metadata", "", MetaVal(ctx.metaData))

ParserAsync_finished(ctx) ==
    IF ctx.errord THEN ctx
    ELSE IF ~ctx.inflateMade THEN Emit(ctx, "error", "No Inflate block", <<>>)
    ELSE [ctx EXCEPT !.inflateEnd = TRUE]

----------------------------------------------------------------------------
(* The dependencies of a Parser, as its constructor received them *)

Dep_read(ctx, length, func, arg) ==
    IF ctx.wiring = "sync" THEN SyncReader_read(ctx, length, func, arg)
    ELSE ParserAsync_read(ctx, length, func, arg)

Dep_error(ctx, msg) ==
    LET c == Called(ctx, "error", <<>>, msg)
    IN  IF c.wiring = "sync" THEN Sync_error(c, msg) ELSE ParserAsync_handleError(c, msg)

Dep_metadata(ctx, md) ==
    LET c == Called(ctx, "metadata", MetaVal(md), "")
    IN  IF c.wiring = "sync" THEN Sync_metadata(c, md) ELSE ParserAsync_handleMetaData(c, md)

\* gamma is reported as the stored integer over GAMMA_DIVISION; the record keeps
\* the integer
Dep_gamma(ctx, g) ==
    LET c == Called(ctx, "gamma", <<g>>, "")
    IN  IF c.wiring = "sync" THEN Sync_gamma(c, g) ELSE Emit(c, "gamma", "", <<g>>)

Dep_transColor(ctx, tc) ==
    LET c == Called(ctx, "transColor", tc, "")
    IN  IF c.wiring = "sync" THEN Sync_transColor(c, tc) ELSE ParserAsync_handleTransColor(c, tc)

Dep_palette(ctx) ==
    LET c == Called(ctx, "palette", Concat(ctx.palette), "")
    IN  IF c.wiring = "sync" THEN Sync_palette(c) ELSE ParserAsync_handlePalette(c)

Dep_inflateData(ctx, data) ==
    LET c == Called(ctx, "inflateData", data, "")
    IN  IF c.wiring = "sync" THEN Sync_inflateData(c, data) ELSE ParserAsync_inflateData(c, data)

\* parseSync passes no finished callback
Dep_finished(ctx) ==
    IF ctx.wiring = "sync" THEN Called(ctx, "finished", <<>>, "")
    ELSE ParserAsync_finished(Called(ctx, "finished", <<>>, ""))

Dep_simpleTransparency(ctx) ==
    LET c == Called(ctx, "simpleTransparency", <<>>, "")
    IN  IF c.wiring = "sync" THEN Sync_simpleTransparency(c) ELSE ParserAsync_simpleTransparency(c)

\* parseSync passes no headersFinished callback: the Parser's default does nothing
Dep_headersFinished(ctx) ==
    LET c == Called(ctx, "headersFinished", <<>>, "")
    IN  IF c.wiring = "sync" THEN c ELSE ParserAsync_headersFinished(c)

----------------------------------------------------------------------------
(* Parser: the chunk parser *)

Throw(ctx, msg) == [ctx EXCEPT !.thrown = msg]

Parser_start(ctx) == Dep_read(ctx, Len(PNG_SIGNATURE), "_parseSignature", 0)

Parser_parseSignature(ctx, data) ==
    IF \E i \in 1..Len(PNG_SIGNATURE) : At(data, i - 1) # PNG_SIGNATURE[i]
    THEN Dep_error(ctx, "Invalid file signature")
    ELSE Dep_read(ctx, 8, "_parseChunkBegin", 0)

Parser_handleChunkEnd(ctx) == Dep_read(ctx, 4, "_parseChunkEnd", 0)

Parser_handleIHDR(ctx, length) == Dep_read(ctx, length, "_parseIHDR", 0)

Parser_handleIEND(ctx, length) == Dep_read(ctx, length, "_parseIEND", 0)

Parser_handlePLTE(ctx, length) == Dep_read(ctx, length, "_parsePLTE", 0)

Parser_handleTRNS(ctx, length) ==
    Dep_read(Dep_simpleTransparency(ctx), length, "_parseTRNS", 0)

Parser_handleGAMA(ctx, length) == Dep_read(ctx, length, "_parseGAMA", 0)

Parser_handleIDAT(ctx, length) ==
    LET c == IF ~ctx.emittedHeadersFinished
             THEN Dep_headersFinished([ctx EXCEPT !.emittedHeadersFinished = TRUE])
             ELSE ctx
    IN  Dep_read(c, -length, "_parseIDAT", length)

\* a variant that takes every code from 65 to 122 for a letter
InvalidTypeChar_oneRange(charCode) == charCode < 65 \/ charCode > 122

\* charCode < 65 || charCode > 122 || (charCode > 90 && charCode < 97)
InvalidTypeChar(charCode) ==
    charCode < 65 \/ charCode > 122 \/ (charCode > 90 /\ charCode < 97)

Parser_parseChunkBegin(ctx, data) ==
    LET length    == ReadUInt32BE(data, 0)
        type      == SubSeq(data, 5, 8)
        ancillary == (data[5] \div 32) % 2 = 1
        \* c: the parser once this._crc is reset and has taken the type bytes
        handle(c) ==
            IF \E i \in 5..8 : InvalidTypeChar(data[i])
            THEN Dep_error(ctx, "Invalid chunk type")
            ELSE IF ~ctx.hasIHDR /\ type # TYPE_IHDR
            THEN Dep_error(ctx, "Expected IHDR to be first chunk")
            ELSE IF type = TYPE_IHDR THEN Parser_handleIHDR(c, length)
            ELSE IF type = TYPE_IEND THEN Parser_handleIEND(c, length)
            ELSE IF type = TYPE_IDAT THEN Parser_handleIDAT(c, length)
            ELSE IF type = TYPE_PLTE THEN Parser_handlePLTE(c, length)
            ELSE IF type = TYPE_tRNS THEN Parser_handleTRNS(c, length)
            ELSE IF type = TYPE_gAMA THEN Parser_handleGAMA(c, length)
            ELSE IF ~ancillary THEN Dep_error(c, "Unsupported critical chunk type")
            ELSE Dep_read(c, length + 4, "_skipChunk", 0)
    IN  handle([ctx EXCEPT !.crc = CrcCalculator_write(CRC_INITIAL, type)])

Parser_skipChunk(ctx, data) == Dep_read(ctx, 8, "_parseChunkBegin", 0)

Parser_parseChunkEnd(ctx, data) ==
    LET fileCrc == BytesWord(data)
        calcCrc == CrcCalculator_crc32(ctx.crc)
    IN  IF ctx.checkCRC /\ calcCrc # fileCrc THEN Dep_error(ctx, "Crc error")
        ELSE IF ~ctx.hasIEND THEN Dep_read(ctx, 8, "_parseChunkBegin", 0)
        ELSE ctx

\* a variant that does not look at the compression method
Parser_parseIHDR_anyCompression(ctx, data) ==
    LET depth     == At(data, 8)
        colorType == At(data, 9)
        filter    == At(data, 11)
        interlace == At(data, 12)
        parse(c) ==
            IF Len(data) < 8 THEN Throw(c, "RangeError")
            ELSE IF depth \notin {1, 2, 4, 8, 16} THEN Dep_error(c, "Unsupported bit depth")
            ELSE IF colorType \notin DOMAIN COLORTYPE_TO_BPP_MAP
            THEN Dep_error(c, "Unsupported color type")
            ELSE IF filter # 0 THEN Dep_error(c, "Unsupported filter method")
            ELSE IF interlace # 0 /\ interlace # 1
            THEN Dep_error(c, "Unsupported interlace method")
            ELSE Parser_handleChunkEnd(
                    Dep_metadata([c EXCEPT !.colorType = colorType, !.hasIHDR = TRUE],
                        [width     |-> ReadUInt32BE(data, 0),
                         height    |-> ReadUInt32BE(data, 4),
                         depth     |-> depth,
                         interlace |-> interlace # 0,
                         palette   |-> (colorType \div COLORTYPE_PALETTE) % 2 = 1,
                         color     |-> (colorType \div COLORTYPE_COLOR) % 2 = 1,
                         alpha     |-> (colorType \div COLORTYPE_ALPHA) % 2 = 1,
                         bpp       |-> COLORTYPE_TO_BPP_MAP[colorType],
                         colorType |-> colorType]))
    IN  parse([ctx EXCEPT !.crc = CrcCalculator_write(@, data)])

Parser_parseIHDR(ctx, data) ==
    LET depth     == At(data, 8)
        colorType == At(data, 9)
        compr     == At(data, 10)
        filter    == At(data, 11)
        interlace == At(data, 12)
        \* c: the parser once this._crc has taken data
        parse(c) ==
            IF Len(data) < 8 THEN Throw(c, "RangeError")
            ELSE IF depth \notin {1, 2, 4, 8, 16} THEN Dep_error(c, "Unsupported bit depth")
            ELSE IF colorType \notin DOMAIN COLORTYPE_TO_BPP_MAP
            THEN Dep_error(c, "Unsupported color type")
            ELSE IF compr # 0 THEN Dep_error(c, "Unsupported compression method")
            ELSE IF filter # 0 THEN Dep_error(c, "Unsupported filter method")
            ELSE IF interlace # 0 /\ interlace # 1
            THEN Dep_error(c, "Unsupported interlace method")
            ELSE Parser_handleChunkEnd(
                    Dep_metadata([c EXCEPT !.colorType = colorType, !.hasIHDR = TRUE],
                        [width     |-> ReadUInt32BE(data, 0),
                         height    |-> ReadUInt32BE(data, 4),
                         depth     |-> depth,
                         interlace |-> interlace # 0,
                         palette   |-> (colorType \div COLORTYPE_PALETTE) % 2 = 1,
                         color     |-> (colorType \div COLORTYPE_COLOR) % 2 = 1,
                         alpha     |-> (colorType \div COLORTYPE_ALPHA) % 2 = 1,
                         bpp       |-> COLORTYPE_TO_BPP_MAP[colorType],
                         colorType |-> colorType]))
    IN  parse([ctx EXCEPT !.crc = CrcCalculator_write(@, data)])

Parser_parsePLTE(ctx, data) ==
    LET entries == Len(data) \div 3
        c == [ctx EXCEPT !.crc = CrcCalculator_write(@, data),
                         !.palette = @ \o [i \in 1..entries |->
                                            <<data[3 * i - 2], data[3 * i - 1], data[3 * i], 255>>]]
    IN  Parser_handleChunkEnd(Dep_palette(c))

Parser_parseTRNS(ctx, data) ==
    LET \* c: the parser once this._crc has taken data
        parse(c) ==
            IF c.colorType = COLORTYPE_PALETTE_COLOR
            THEN IF Len(c.palette) = 0
                 THEN Dep_error(c, "Transparency chunk must be after palette")
                 ELSE IF Len(data) > Len(c.palette)
                 THEN Dep_error(c, "More transparent colors than palette size")
                 ELSE Parser_handleChunkEnd(Dep_palette(
                        [c EXCEPT !.palette = [i \in 1..Len(c.palette) |->
                            IF i <= Len(data)
                            THEN <<c.palette[i][1], c.palette[i][2], c.palette[i][3], data[i]>>
                            ELSE c.palette[i]]]))
            ELSE IF c.colorType = COLORTYPE_GRAYSCALE
            THEN IF Len(data) < 2 THEN Throw(c, "RangeError")
                 ELSE Parser_handleChunkEnd(Dep_transColor(c, <<ReadUInt16BE(data, 0)>>))
            ELSE IF c.colorType = COLORTYPE_COLOR
            THEN IF Len(data) < 6 THEN Throw(c, "RangeError")
                 ELSE Parser_handleChunkEnd(Dep_transColor(c,
                        <<ReadUInt16BE(data, 0), ReadUInt16BE(data, 2), ReadUInt16BE(data, 4)>>))
            ELSE Parser_handleChunkEnd(c)
    IN  parse([ctx EXCEPT !.crc = CrcCalculator_write(@, data)])

Parser_parseGAMA(ctx, data) ==
    LET \* c: the parser once this._crc has taken data
        parse(c) ==
            IF Len(data) < 4 THEN Throw(c, "RangeError")
            ELSE Parser_handleChunkEnd(Dep_gamma(c, ReadUInt32BE(data, 0)))
    IN  parse([ctx EXCEPT !.crc = CrcCalculator_write(@, data)])

\* a variant that hands the data on without looking for the palette
Parser_parseIDAT_anyPalette(ctx, length, data) ==
    LET leftOverLength == length - Len(data)
        parse(c) ==
            IF leftOverLength > 0
            THEN Parser_handleIDAT(Dep_inflateData(c, data), leftOverLength)
            ELSE Parser_handleChunkEnd(Dep_inflateData(c, data))
    IN  parse([ctx EXCEPT !.crc = CrcCalculator_write(@, data)])

Parser_parseIDAT(ctx, length, data) ==
    LET leftOverLength == length - Len(data)
        \* c: the parser once this._crc has taken data
        parse(c) ==
            IF c.colorType = COLORTYPE_PALETTE_COLOR /\ Len(c.palette) = 0
            THEN Throw(c, "Expected palette not found")
            ELSE IF leftOverLength > 0
            THEN Parser_handleIDAT(Dep_inflateData(c, data), leftOverLength)
            ELSE Parser_handleChunkEnd(Dep_inflateData(c, data))
    IN  parse([ctx EXCEPT !.crc = CrcCalculator_write(@, data)])

Parser_parseIEND(ctx, data) ==
    LET ended(c) == IF c.finishedGiven THEN Dep_finished(c) ELSE c
    IN  ended(Parser_handleChunkEnd(
            [ctx EXCEPT !.crc = CrcCalculator_write(@, data), !.hasIEND = TRUE]))

\* read.func.call(this, data)
\* the callback of a client of a bare ChunkStream: the next demand of its plan
Client_next(ctx) ==
    IF ctx.plan = <<>> THEN ctx
    ELSE ChunkStream_read([ctx EXCEPT !.plan = Tail(@)], Head(ctx.plan), "_next", 0)

CallRead(ctx, read, data) ==
    LET c == [ctx EXCEPT !.served = Append(@, [length |-> read.length,
                                               allowLess |-> read.allowLess,
                                               data |-> data])]
    IN
    CASE read.func = "_next"            -> Client_next(c)
      [] read.func = "_parseSignature"  -> Parser_parseSignature(c, data)
      [] read.func = "_parseChunkBegin" -> Parser_parseChunkBegin(c, data)
      [] read.func = "_skipChunk"       -> Parser_skipChunk(c, data)
      [] read.func = "_parseChunkEnd"   -> Parser_parseChunkEnd(c, data)
      [] read.func = "_parseIHDR"       -> Parser_parseIHDR(c, data)
      [] read.func = "_parsePLTE"       -> Parser_parsePLTE(c, data)
      [] read.func = "_parseTRNS"       -> Parser_parseTRNS(c, data)
      [] read.func = "_parseGAMA"       -> Parser_parseGAMA(c, data)
      [] read.func = "_parseIDAT"       -> Parser_parseIDAT(c, read.arg, data)
      [] read.func = "_parseIEND"       -> Parser_parseIEND(c, data)

----------------------------------------------------------------------------
(* sync-reader.ts and parseSync *)

\* the condition of the while loop of SyncReader.process together with the test
\* in its body: the first demand can be served
SyncReader_canServe(ctx) ==
    /\ ctx.thrown = "none"
    /\ Len(ctx.reads) > 0
    /\ Len(ctx.buffer) > 0
    /\ (Len(ctx.buffer) >= Head(ctx.reads).length \/ Head(ctx.reads).allowLess)

\* one turn of the while loop of SyncReader.process
SyncReader_serve(ctx) ==
    LET read       == Head(ctx.reads)
        buf        == ctx.buffer
        readLength == Min(read.length, Len(buf))
    IN  CallRead([ctx EXCEPT !.reads = Tail(@), !.buffer = SliceFrom(buf, readLength)],
                 read, Slice(buf, 0, readLength))

\* what SyncReader.process does after its loop
SyncReader_finish(ctx) ==
    IF ctx.thrown # "none" THEN ctx
    ELSE IF Len(ctx.reads) > 0
    THEN Throw(ctx, "There are some read requests waiting on finished stream")
    ELSE IF Len(ctx.buffer) > 0
    THEN Throw(ctx, "Unrecognized content at end of stream")
    ELSE ctx

RECURSIVE SyncReader_process(_)
SyncReader_process(ctx) ==
    IF SyncReader_canServe(ctx) THEN SyncReader_process(SyncReader_serve(ctx))
    ELSE SyncReader_finish(ctx)

\* parseSync up to reader.process(): the reader, the parser, parser.start()
ParseSync_start(buffer, options) == Parser_start(NewContext("sync", buffer, options))

\* a host of its own: a Parser over a SyncReader as in parseSync, with a
\* finished callback among the dependencies
Parser_direct(buffer, options) ==
    Parser_start([NewContext("sync", buffer, options) EXCEPT !.finishedGiven = TRUE])

Failed(msg) ==
    [status |-> "error", error |-> msg, width |-> 0, height |-> 0, data |-> <<>>,
     gamma |-> 0, alpha |-> FALSE]

\* parseSync after reader.process() returned or threw (ctx is what process left)
ParseSync_finish(ctx) ==
    IF ctx.thrown # "none" THEN Failed(ctx.thrown)
    ELSE IF ctx.err # "none" THEN Failed(ctx.err)
    ELSE IF ~ctx.hasMeta THEN Failed("PNG parsing failed - no metadata available")
    ELSE LET info        == ImageInfo(ctx)
             inflateData == Concat(ctx.inflateDataList)
             return(normalized) ==
                IF normalized.thrown # "none" THEN Failed(normalized.thrown)
                ELSE [status |-> "ok", error |-> "none",
                      width  |-> info.width,
                      height |-> info.height,
                      data   |-> normalized.out,
                      gamma  |-> IF ctx.gamma > 0 THEN ctx.gamma ELSE 0,
                      alpha  |-> ctx.metaData.alpha]
             normalize(bitmap) ==
                IF bitmap.thrown # "none" THEN Failed(bitmap.thrown)
                ELSE return(normalizeFormat(ArrayBufferBytes(bitmap.pxData, info.depth),
                                            info, ctx.skipRescale))
             map(unfiltered) ==
                IF unfiltered.thrown # "none" THEN Failed(unfiltered.thrown)
                ELSE normalize(dataToBitMap(unfiltered.out, info))
             unfilter(inflated) ==
                IF inflated.thrown # "none" THEN Failed(inflated.thrown)
                ELSE IF Len(inflated.out) = 0
                THEN Failed("Bad PNG - invalid inflate data response")
                ELSE map(processSync(inflated.out, info))
         IN  unfilter(IF info.interlace THEN ZlibInflate(inflateData)
                      ELSE InflateSync(inflateData, ImageSize(ctx.metaData)))

\* parseSync(buffer, options)
parseSync(buffer, options) ==
    ParseSync_finish(SyncReader_process(ParseSync_start(buffer, options)))

----------------------------------------------------------------------------
(* The encoder: bitpacker.ts, filter-pack.ts, packer.ts, packSync *)

\* Packer constructor: this._options.  The keys it keeps do not include
\* filterType, whatever the caller passed; bitDepth is options.bitDepth || 8.
Packer_options(options) ==
    [bitDepth |-> IF options.bitDepth = 0 THEN 8 ELSE options.bitDepth, colorType |-> options.colorType,
     inputColorType |-> options.inputColorType, inputHasAlpha |-> options.inputHasAlpha,
     deflateChunkSize |-> options.deflateChunkSize,
     hasFilterType |-> FALSE, filterType |-> -1]

\* Packer.validateOptions: the message thrown, or "none"
Packer_validateOptions(o) ==
    IF o.colorType \notin {0, 2, 4, 6} THEN "Option color type is not supported at present"
    ELSE IF o.inputColorType \notin {0, 2, 4, 6}
    THEN "Option input color type is not supported at present"
    ELSE IF o.bitDepth # 8 /\ o.bitDepth # 16
    THEN "Option bit depth is not supported at present"
    ELSE "none"

\* bitPacker, fast path: no conversion when the colour types agree at depth 8
bitPacker_fastPath(options) ==
    options.colorType = options.inputColorType /\ options.bitDepth = 8

\* Math.round(a * c / m) for 0 <= a, c <= m < 2^16, m odd, by parts that stay
\* within the integers of the model checker
MulDivRound(a, c, m) ==
    LET hi   == (a \div 256) * c
        rest == (hi % m) * 256 + (a % 256) * c
    IN  (hi \div m) * 256 + ((2 * rest + m) \div (2 * m))

\* bitPacker: data, the samples of dataIn: its bytes, or for bitDepth 16 the
\* Uint16Array over its ArrayBuffer (low byte first)
bitPacker_data(dataIn, options) ==
    IF options.bitDepth # 16 THEN dataIn
    ELSE [i \in 1..(Len(dataIn) \div 2) |-> dataIn[2 * i - 1] + 256 * dataIn[2 * i]]

\* bitPacker, getRGBA(inIndex): <<red, green, blue, alpha>>.  bgColor is not
\* among the options the Packer keeps, so the background is maxValue.
bitPacker_getRGBA(data, inIndex, options, maxValue) ==
    LET ict   == options.inputColorType
        alpha == CASE ict = COLORTYPE_COLOR_ALPHA -> At(data, inIndex + 3)
                   [] ict = COLORTYPE_ALPHA -> At(data, inIndex + 1)
                   [] OTHER -> maxValue
        red   == At(data, inIndex)
        green == IF ict \in {COLORTYPE_COLOR_ALPHA, COLORTYPE_COLOR}
                 THEN At(data, inIndex + 1) ELSE red
        blue  == IF ict \in {COLORTYPE_COLOR_ALPHA, COLORTYPE_COLOR}
                 THEN At(data, inIndex + 2) ELSE red
        outHasAlpha == options.colorType \in {COLORTYPE_COLOR_ALPHA, COLORTYPE_ALPHA}
        \* Math.min(Math.max(Math.round(inverseAlpha * bg + alphaRatio * c), 0), maxValue)
        blend(c) == Min(Max((maxValue - alpha) + MulDivRound(alpha, c, maxValue), 0), maxValue)
    IN  IF options.inputHasAlpha /\ ~outHasAlpha
        THEN <<blend(red), blend(green), blend(blue), alpha>>
        ELSE <<red, green, blue, alpha>>

\* bitPacker: the bytes written to outData for one pixel; undefined is stored
\* as 0
bitPacker_pixel(rgba, options) ==
    LET outHasAlpha == options.colorType \in {COLORTYPE_COLOR_ALPHA, COLORTYPE_ALPHA}
        \* Math.round((red + green + blue) / 3)
        grayscale   == (2 * (rgba[1] + rgba[2] + rgba[3]) + 3) \div 6
        samples     == IF options.colorType \in {COLORTYPE_COLOR_ALPHA, COLORTYPE_COLOR}
                       THEN <<rgba[1], rgba[2], rgba[3]>>
                       ELSE <<grayscale>>
        all         == IF outHasAlpha THEN Append(samples, Max(rgba[4], 0)) ELSE samples
    IN  IF options.bitDepth = 8 THEN all
        ELSE Concat([i \in 1..Len(all) |-> <<all[i] \div 256, all[i] % 256>>])

\* bitPacker(dataIn, width, height, options)
bitPacker(dataIn, width, height, options) ==
    IF bitPacker_fastPath(options) THEN dataIn
    ELSE LET data     == bitPacker_data(dataIn, options)
             maxValue == IF options.bitDepth = 16 THEN 65535 ELSE 255
             bpp      == COLORTYPE_TO_BPP_MAP[options.inputColorType]
             inBpp    == IF bpp = 4 /\ ~options.inputHasAlpha THEN 3 ELSE bpp
         IN  Concat([k \in 1..(width * height) |->
                        bitPacker_pixel(bitPacker_getRGBA(data, (k - 1) * inBpp, options,
                                                          maxValue),
                                        options)])

\* filterNone .. filterPaeth and their filterSum twins: the value computed for
\* byte x of the line at pxPos, before it is stored or summed
FilterValue(filterType, pxData, pxPos, byteWidth, bpp, x) ==
    LET left   == IF x >= bpp THEN At(pxData, pxPos + x - bpp) ELSE 0
        up     == IF pxPos > 0 THEN At(pxData, pxPos + x - byteWidth) ELSE 0
        upleft == IF pxPos > 0 /\ x >= bpp THEN At(pxData, pxPos + x - (byteWidth + bpp)) ELSE 0
        px     == At(pxData, pxPos + x)
    IN  CASE filterType = 0 -> px
          [] filterType = 1 -> px - left
          [] filterType = 2 -> px - up
          [] filterType = 3 -> px - ((left + up) \div 2)
          [] filterType = 4 -> px - paethPredictor(left, up, upleft)

RECURSIVE FilterSum(_, _, _, _, _, _, _)
\* filterSums[filterType](pxData, pxPos, byteWidth, bpp): the sum over the bytes
\* x .. to - 1 of the line
FilterSum(filterType, pxData, pxPos, byteWidth, bpp, x, to) ==
    IF x >= to THEN 0
    ELSE IF to - x = 1
    THEN Abs(FilterValue(filterType, pxData, pxPos, byteWidth, bpp, x))
    ELSE LET mid == x + ((to - x) \div 2)
         IN  FilterSum(filterType, pxData, pxPos, byteWidth, bpp, x, mid)
                + FilterSum(filterType, pxData, pxPos, byteWidth, bpp, mid, to)

RECURSIVE SelectFilter(_, _, _, _, _, _, _)
\* the loop "for (const filterType of filterTypes)" of packFilter: sel after it
SelectFilter(filterTypes, pxData, pxPos, byteWidth, bpp, sel, min) ==
    IF filterTypes = <<>> THEN sel
    ELSE LET sum == FilterSum(Head(filterTypes), pxData, pxPos, byteWidth, bpp, 0, byteWidth)
         IN  IF min < 0 \/ sum < min
             THEN SelectFilter(Tail(filterTypes), pxData, pxPos, byteWidth, bpp,
                               Head(filterTypes), sum)
             ELSE SelectFilter(Tail(filterTypes), pxData, pxPos, byteWidth, bpp, sel, min)

\* filters[sel](...): the line as stored in rawData, a Buffer (modulo 256)
FilterLine(sel, pxData, pxPos, byteWidth, bpp) ==
    [i \in 1..byteWidth |-> FilterValue(sel, pxData, pxPos, byteWidth, bpp, i - 1) % 256]

RECURSIVE PackFilterLines(_, _, _, _, _, _, _)
\* the loop over y of packFilter; sel carries over from line to line
PackFilterLines(filterTypes, pxData, byteWidth, bpp, height, y, sel) ==
    IF y >= height THEN <<>>
    ELSE LET pxPos == y * byteWidth
             s     == IF Len(filterTypes) > 1
                      THEN SelectFilter(filterTypes, pxData, pxPos, byteWidth, bpp, sel, -1)
                      ELSE sel
         IN  <<s>> \o FilterLine(s, pxData, pxPos, byteWidth, bpp)
                \o PackFilterLines(filterTypes, pxData, byteWidth, bpp, height, y + 1, s)

\* a variant that keeps the distance bpp at depth 16
packFilter_sameDistance(pxData, width, height, options, bpp) ==
    LET filterTypes == IF ~options.hasFilterType \/ options.filterType = -1
                       THEN <<0, 1, 2, 3, 4>>
                       ELSE <<options.filterType>>
        bpp2        == IF options.bitDepth = 16 THEN bpp * 2 ELSE bpp
    IN  PackFilterLines(filterTypes, pxData, width * bpp2, bpp, height, 0, filterTypes[1])

\* packFilter(pxData, width, height, options, bpp)
packFilter(pxData, width, height, options, bpp) ==
    LET filterTypes == IF ~options.hasFilterType \/ options.filterType = -1
                       THEN <<0, 1, 2, 3, 4>>
                       ELSE <<options.filterType>>
        bpp2        == IF options.bitDepth = 16 THEN bpp * 2 ELSE bpp
    IN  PackFilterLines(filterTypes, pxData, width * bpp2, bpp2, height, 0, filterTypes[1])

\* Packer.filterData
Packer_filterData(o, data, width, height) ==
    packFilter(bitPacker(data, width, height, o), width, height, o,
               COLORTYPE_TO_BPP_MAP[o.colorType])

\* a variant whose CRC covers the data and not the type
Packer_packChunk_crcOfData(type, data) ==
    WriteUInt32BE(Len(data)) \o type \o data \o WordBytes(CrcCalculator_static_crc32(data))

\* Packer._packChunk(type, data)
Packer_packChunk(type, data) ==
    WriteUInt32BE(Len(data)) \o type \o data
        \o WordBytes(CrcCalculator_static_crc32(type \o data))

\* Packer.packIHDR
Packer_packIHDR(o, width, height) ==
    Packer_packChunk(TYPE_IHDR,
        WriteUInt32BE(width) \o WriteUInt32BE(height) \o <<o.bitDepth, o.colorType, 0, 0, 0>>)

\* Packer.packGAMA; gamma is the fraction gamma[1] / gamma[2]
Packer_packGAMA(gamma) ==
    Packer_packChunk(TYPE_gAMA, WriteUInt32BE((gamma[1] * GAMMA_DIVISION) \div gamma[2]))

Packer_packIDAT(data) == Packer_packChunk(TYPE_IDAT, data)

Packer_packIEND == Packer_packChunk(TYPE_IEND, <<>>)

\* packSync(metaData, options): [thrown, out]; metaData.gamma is a fraction,
\* <<0, 1>> when the raster has none
packSync(metaData, options) ==
    LET o == Packer_options(options)
    IN  IF Packer_validateOptions(o) # "none"
        THEN [thrown |-> Packer_validateOptions(o), out |-> <<>>]
        ELSE [thrown |-> "none",
              out |-> PNG_SIGNATURE
                        \o Packer_packIHDR(o, metaData.width, metaData.height)
                        \o (IF metaData.gamma[1] # 0 THEN Packer_packGAMA(metaData.gamma)
                            ELSE <<>>)
                        \o Packer_packIDAT(Deflate(
                                Packer_filterData(o, metaData.data, metaData.width,
                                                  metaData.height)))
                        \o Packer_packIEND]

RECURSIVE Deflate_chunks(_, _)
\* the 'data' events of a Deflate stream whose output is buf: pieces of
\* chunkSize bytes, and what is left
Deflate_chunks(buf, chunkSize) ==
    IF Len(buf) <= chunkSize THEN <<buf>>
    ELSE <<Slice(buf, 0, chunkSize)>> \o Deflate_chunks(SliceFrom(buf, chunkSize), chunkSize)

\* new PackerAsync(options); the Packer's constructor throws on options it
\* does not accept
NewPackerAsync(options) ==
    LET o == Packer_options(options)
    IN  [phase   |-> IF Packer_validateOptions(o) = "none" THEN "new" ELSE "failed",
         thrown  |-> Packer_validateOptions(o),
         options |-> o,
         emitted |-> <<>>,
         deflate |-> <<>>]

\* PackerAsync.pack(data, width, height, gamma): the signature, IHDR and gAMA
\* are emitted at once, the filtered data is left with the Deflate stream
PackerAsync_pack(enc0, data, width, height, gamma) ==
    LET head == <<[ev |-> "data", val |-> PNG_SIGNATURE],
                  [ev |-> "data", val |-> Packer_packIHDR(enc0.options, width, height)]>>
                    \o (IF gamma[1] # 0
                        THEN <<[ev |-> "data", val |-> Packer_packGAMA(gamma)]>>
                        ELSE <<>>)
    IN  [enc0 EXCEPT !.phase = "deflating",
                     !.emitted = @ \o head,
                     !.deflate = Deflate_chunks(
                                    Deflate(Packer_filterData(enc0.options, data, width, height)),
                                    enc0.options.deflateChunkSize)]

\* this._deflate.on('data', ...)
PackerAsync_onDeflateData(enc0, compressedData) ==
    [enc0 EXCEPT !.emitted = Append(@, [ev |-> "data", val |-> Packer_packIDAT(compressedData)])]

\* this._deflate.on('end', ...)
PackerAsync_onDeflateEnd(enc0) ==
    [enc0 EXCEPT !.phase = "done",
                 !.emitted = @ \o <<[ev |-> "data", val |-> Packer_packIEND],
                                    [ev |-> "end", val |-> <<>>]>>]

----------------------------------------------------------------------------
(* ParserAsync: the Inflate stream, the FilterAsync and _complete *)

\* ParserAsync._complete(filteredData)
ParserAsync_complete(ctx, filteredData) ==
    IF ctx.errord THEN ctx
    ELSE LET info == ImageInfo(ctx)
             emit(normalised) ==
                IF normalised.thrown # "none"
                THEN ParserAsync_handleError(ctx, normalised.thrown)
                ELSE Emit(ctx, "parsed", "", normalised.out)
             normalise(bitmap) ==
                IF bitmap.thrown # "none" THEN ParserAsync_handleError(ctx, bitmap.thrown)
                ELSE emit(normalizeFormat(bitmap.pxData, info, ctx.skipRescale))
         IN  normalise(dataToBitMap(filteredData, info))

\* FilterAsync.write(chunk): the Filter reads scanline after scanline from what
\* has been written so far and emits 'complete' with the last one.  An
\* exception in a Filter callback ends as an 'error' event of the FilterAsync,
\* which ParserAsync does not listen to.
FilterAsync_write(ctx, chunk) ==
    IF ~ctx.filterMade \/ ctx.filterDead \/ ctx.filterComplete THEN ctx
    ELSE LET all == ctx.filterIn \o chunk
             \* run: what the Filter made of all that was written
             settle(run) ==
                IF run.thrown \in {"none", "Unrecognized content at end of stream"}
                THEN ParserAsync_complete(
                        [ctx EXCEPT !.filterIn = all, !.filterComplete = TRUE], run.out)
                ELSE IF run.thrown = "There are some read requests waiting on finished stream"
                THEN [ctx EXCEPT !.filterIn = all]
                ELSE [ctx EXCEPT !.filterIn = all, !.filterDead = TRUE]
         IN  settle(processSync(all, ImageInfo(ctx)))

\* the 'error' listener _inflateData put on the Inflate stream
Inflate_onError(ctx, msg) ==
    IF ~ctx.metaData.interlace /\ ctx.leftToInflate = 0 THEN ctx
    ELSE Emit(ctx, "error", msg, <<>>)

\* the 'data' listener: pipe() for an interlaced image, else the listener of
\* _inflateData, which hands over at most leftToInflate bytes
Inflate_onData(ctx, chunk) ==
    IF ctx.metaData.interlace THEN FilterAsync_write(ctx, chunk)
    ELSE IF ctx.leftToInflate = 0 THEN ctx
    ELSE LET cut == IF Len(chunk) > ctx.leftToInflate
                    THEN Slice(chunk, 0, ctx.leftToInflate) ELSE chunk
         IN  FilterAsync_write([ctx EXCEPT !.leftToInflate = @ - Len(cut)], cut)

\* the Inflate stream at work on what was written to it: the stream header, the
\* data behind it, and 'end' (or a failure on an empty stream) after end()
Inflate_run(ctx) ==
    IF ~ctx.inflateMade \/ ctx.inflateDead THEN ctx
    ELSE IF ~ctx.inflateStarted /\ ctx.inflatePending # <<>>
            /\ <<Head(ctx.inflatePending)>> # ZLIB_HEADER
    THEN Inflate_onError([ctx EXCEPT !.inflateDead = TRUE, !.inflatePending = <<>>],
                         "inflate failed")
    ELSE LET chunk == IF ctx.inflateStarted THEN ctx.inflatePending
                      ELSE SliceFrom(ctx.inflatePending, 1)
             \* begun: the stream once what was pending has been inflated
             end(begun) ==
                IF ~begun.inflateEnd \/ begun.inflateEndEmitted \/ begun.inflateDead
                THEN begun
                ELSE IF ~begun.inflateStarted
                THEN Inflate_onError([begun EXCEPT !.inflateDead = TRUE], "inflate failed")
                ELSE [begun EXCEPT !.inflateEndEmitted = TRUE]
             \* fed: the stream once the 'data' listener has run
             begin(fed) ==
                end(IF ctx.inflatePending # <<>>
                    THEN [fed EXCEPT !.inflateStarted = TRUE, !.inflatePending = <<>>]
                    ELSE fed)
         IN  begin(IF chunk = <<>> THEN ctx
                   ELSE Inflate_onData([ctx EXCEPT !.inflateStarted = TRUE,
                                                   !.inflatePending = <<>>], chunk))

----------------------------------------------------------------------------
(* ChunkStream: write, end, _process *)

\* the null that end() pushes on _buffers
NULL_BUFFER == <<-1>>

\* ChunkStream._end
ChunkStream_end_(ctx) ==
    ChunkStream_destroy(
        IF ~ctx.destroyed /\ Len(ctx.reads) > 0
        THEN Emit(ctx, "error", "Unexpected end of input", <<>>)
        ELSE ctx)

\* a variant that hands over the whole of the first buffer
ChunkStream_processReadAllowingLess_wholeBuffer(ctx, read) ==
    LET c == [ctx EXCEPT !.reads = Tail(@)]
    IN  IF c.destroyed \/ c.buffers = <<>> \/ Head(c.buffers) = NULL_BUFFER THEN c
        ELSE CallRead([c EXCEPT !.buffered = @ - Len(Head(c.buffers)), !.buffers = Tail(@)],
                      read, Head(c.buffers))

\* ChunkStream._processReadAllowingLess
ChunkStream_processReadAllowingLess(ctx, read) ==
    LET c == [ctx EXCEPT !.reads = Tail(@)]
    IN  IF c.destroyed \/ c.buffers = <<>> \/ Head(c.buffers) = NULL_BUFFER THEN c
        ELSE LET smallerBuf == Head(c.buffers)
                 \* the front of the first buffer, or the whole of it
                 taken      == Min(Len(smallerBuf), read.length)
             IN  CallRead([c EXCEPT !.buffered = @ - taken,
                                    !.buffers = IF Len(smallerBuf) > read.length
                                                THEN <<SliceFrom(smallerBuf, read.length)>>
                                                        \o Tail(@)
                                                ELSE Tail(@)],
                          read, Slice(smallerBuf, 0, taken))

RECURSIVE TakeBuffers(_, _, _)
\* the while loop of _processRead: [data, buffers] once need more bytes have
\* been copied from the front of buffers behind data
TakeBuffers(buffers, need, data) ==
    IF need <= 0 THEN [data |-> data, buffers |-> buffers]
    ELSE IF buffers = <<>> THEN [data |-> data \o Zeros(need), buffers |-> buffers]
    ELSE IF Head(buffers) = NULL_BUFFER
    THEN [data |-> data \o Zeros(need), buffers |-> Tail(buffers)]
    ELSE LET buf == Head(buffers)
             len == Min(Len(buf), need)
         IN  IF len # Len(buf)
             THEN [data |-> data \o Slice(buf, 0, len),
                   buffers |-> <<SliceFrom(buf, len)>> \o Tail(buffers)]
             ELSE TakeBuffers(Tail(buffers), need - len, data \o buf)

\* ChunkStream._processRead
ChunkStream_processRead(ctx, read) ==
    LET took == TakeBuffers(ctx.buffers, read.length, <<>>)
    IN  CallRead([ctx EXCEPT !.reads = Tail(@), !.buffers = took.buffers,
                             !.buffered = @ - read.length],
                 read, took.data)

\* the condition of the while loop of _process together with the tests in its body
ChunkStream_canServe(ctx) ==
    /\ ctx.thrown = "none"
    /\ ctx.buffered > 0
    /\ ~ctx.destroyed
    /\ Len(ctx.reads) > 0
    /\ (Head(ctx.reads).allowLess \/ ctx.buffered >= Head(ctx.reads).length)

RECURSIVE ChunkStream_loop(_)
ChunkStream_loop(ctx) ==
    IF ~ChunkStream_canServe(ctx) THEN ctx
    ELSE ChunkStream_loop(
            IF Head(ctx.reads).allowLess
            THEN ChunkStream_processReadAllowingLess(ctx, Head(ctx.reads))
            ELSE ChunkStream_processRead(ctx, Head(ctx.reads)))

\* ChunkStream._process: the loop, then _end() once the stream is not writable;
\* an exception from a callback is emitted as an 'error'
ChunkStream_process(ctx) ==
    LET \* c: the stream as the loop left it
        after(c) ==
            IF c.thrown # "none"
            THEN Emit([c EXCEPT !.thrown = "none"], "error", c.thrown, <<>>)
            ELSE IF ~c.destroyed /\ ~c.writable THEN ChunkStream_end_(c)
            ELSE c
    IN  after(ChunkStream_loop(ctx))

\* ChunkStream.write(data)
ChunkStream_write(ctx, data) ==
    IF ~ctx.writable THEN Emit(ctx, "error", "Stream not writable", <<>>)
    ELSE LET \* c: the stream after this._process()
             pause(c) ==
                IF ~c.destroyed /\ Len(c.reads) = 0 THEN [c EXCEPT !.paused = TRUE] ELSE c
         IN  pause(ChunkStream_process(
                    [ctx EXCEPT !.buffers = IF ctx.destroyed THEN @ ELSE Append(@, data),
                                !.buffered = @ + Len(data)]))

\* ChunkStream.end(data); hasData tells whether data was passed
ChunkStream_end(ctx, hasData, data) ==
    LET \* c: the stream after the write of data, not writable any more
        finish(c) ==
            IF c.destroyed THEN c
            ELSE IF Len(c.buffers) = 0 THEN ChunkStream_end_(c)
            ELSE ChunkStream_process([c EXCEPT !.buffers = Append(@, NULL_BUFFER)])
    IN  finish([(IF hasData THEN ChunkStream_write(ctx, data) ELSE ctx)
                    EXCEPT !.writable = FALSE])

\* the callback ChunkStream.read left for the next tick
ChunkStream_tick(ctx) ==
    LET \* c: the stream after this._process()
        drain(c) ==
            IF c.paused /\ ~c.destroyed /\ Len(c.reads) > 0
            THEN Emit([c EXCEPT !.paused = FALSE], "drain", "", <<>>)
            ELSE c
    IN  drain(ChunkStream_process([ctx EXCEPT !.ticks = @ - 1]))

RECURSIVE ChunkStream_ticks(_)
\* every callback that is waiting for the next tick, and those they leave
ChunkStream_ticks(ctx) ==
    IF ctx.ticks = 0 THEN ctx ELSE ChunkStream_ticks(ChunkStream_tick(ctx))

\* the event loop runs until nothing is left to do: the ticks, then the Inflate
\* stream
EventLoop(ctx) == Inflate_run(ChunkStream_ticks(ctx))

\* new ParserAsync(options)
NewParserAsync(options) == Parser_start(NewContext("async", <<>>, options))

\* a host of its own: a ChunkStream and a client with a plan of demands (a
\* length below zero allows less): it makes the first demand, and the
\* callback of each demand makes the next
NewChunkStream(options, plan) ==
    Client_next([NewContext("chunk", <<>>, options) EXCEPT !.plan = plan])

----------------------------------------------------------------------------
(* The inputs of the decoder: PNG streams written chunk by chunk, each the   *)
(* way Packer._packChunk lays a chunk out, and rasters for the encoder.      *)

MaxWidth == 3

MaxHeight == 3

MaxSeed == 2

\* the chunk types of an input, by layout
Layout(layout) ==
    CASE layout = "plain"    -> <<"IHDR", "IDAT", "IEND">>
      [] layout = "gama"     -> <<"IHDR", "gAMA", "IDAT", "IEND">>
      [] layout = "lategama" -> <<"IHDR", "IDAT", "gAMA", "IEND">>
      [] layout = "plte"     -> <<"IHDR", "PLTE", "tRNS", "IDAT", "IEND">>
      [] layout = "lateplte" -> <<"IHDR", "PLTE", "IDAT", "PLTE", "IEND">>
      [] layout = "trns"     -> <<"IHDR", "tRNS", "IDAT", "IEND">>
      [] layout = "latetrns" -> <<"IHDR", "IDAT", "tRNS", "IEND">>
      [] layout = "unknown"  -> <<"IHDR", "teSt", "IDAT", "IEND">>
      [] layout = "split"    -> <<"IHDR", "IDAT", "IDAT", "IEND">>
      [] layout = "noiend"   -> <<"IHDR", "IDAT">>
      [] layout = "gamafirst" -> <<"gAMA", "IHDR", "IDAT", "IEND">>
      [] layout = "idatfirst" -> <<"IDAT", "IHDR", "IEND">>
      [] layout = "iendfirst" -> <<"IEND">>
      [] layout = "trnsfirst" -> <<"IHDR", "tRNS", "PLTE", "IDAT", "IEND">>
      [] layout = "idatplte"  -> <<"IHDR", "IDAT", "PLTE", "IEND">>
      [] layout = "noplte"    -> <<"IHDR", "IDAT", "IEND">>
      [] layout = "twoihdr"   -> <<"IHDR", "IHDR2", "IDAT", "IEND">>
      [] layout = "pal"       -> <<"IHDR", "PLTE", "IDAT", "IEND">>
      [] layout = "twoplte"   -> <<"IHDR", "PLTE", "PLTE", "IDAT", "IEND">>
      [] layout = "lateihdr"  -> <<"IHDR", "IDAT", "IHDR2", "IEND">>

\* an ancillary chunk type no handler is registered for
TYPE_teSt == <<116, 101, 83, 116>>

\* the bitmapInfo of an input
InputInfo(o) ==
    [width |-> o.w, height |-> o.h, depth |-> o.depth, bpp |-> COLORTYPE_TO_BPP_MAP[o.ct],
     interlace |-> o.interlace, colorType |-> o.ct,
     hasPalette |-> o.ct = COLORTYPE_PALETTE_COLOR, palette |-> <<>>, transColor |-> <<>>]

\* whether the IHDR fields of an input are ones the format defines
InputHeaderKnown(o) ==
    /\ o.depth \in {1, 2, 4, 8, 16}
    /\ o.ct \in {0, 2, 3, 4, 6}
    /\ o.compr = 0
    /\ o.filter = 0
    /\ o.ilace \in {0, 1}

\* the kinds of input whose scanlines are written sample by sample
PixelKinds == {"trans", "index", "pixels"}

\* the bytes of one scanline of an image that is not interlaced
InputLineBytes(o) ==
    LET bpp == CASE o.ct = 0 -> 1 [] o.ct = 2 -> 3 [] o.ct = 3 -> 1 [] o.ct = 4 -> 2 [] OTHER -> 4
    IN  (o.w * bpp * o.depth + 7) \div 8

\* the palette index of the pixel (x, y) of an input of the kind "index": 1
\* everywhere for seed 0, the indices a palette of four entries has for an odd
\* seed, and for an even seed 0 and 1 in turn with a last pixel whose index is
\* the last but one the depth can express
InputIndex(o, x, y) ==
    IF o.seed = 0 THEN 1
    ELSE IF o.seed % 2 = 1 THEN (x + 2 * y + o.seed) % Min(4, 2 ^ o.depth)
    ELSE IF x = o.w - 1 /\ y = o.h - 1 THEN (2 ^ o.depth) - 2
    ELSE (x + y) % 2

RECURSIVE InputIndexByte(_, _, _, _)
\* the byte that holds the indices of the pixels x, x + 1, ... of scanline y, the
\* first of them in the bits above shift + depth, for a depth below 8
InputIndexByte(o, x, y, shift) ==
    IF shift < 0 \/ x >= o.w THEN 0
    ELSE InputIndex(o, x, y) * (2 ^ shift) + InputIndexByte(o, x + 1, y, shift - o.depth)

\* byte k (from 1) of scanline y (from 0) of an input of a kind in PixelKinds:
\* for the kind "index" the indices packed the way the format says, else all
\* bytes alike for seed 0, pixels of two colours in turn for an even seed, mixed
\* bytes for an odd one
InputKnownByte(o, k, y) ==
    LET bpp   == CASE o.ct = 0 -> 1 [] o.ct = 2 -> 3 [] o.ct = 3 -> 1 [] o.ct = 4 -> 2 [] OTHER -> 4
        pixel == Max(1, (bpp * o.depth) \div 8)
    IN  IF o.kind = "index"
        THEN (CASE o.depth = 16 ->
                    IF k % 2 = 1 THEN InputIndex(o, (k - 1) \div 2, y) \div 256
                    ELSE InputIndex(o, (k - 1) \div 2, y) % 256
                [] o.depth = 8 -> InputIndex(o, k - 1, y)
                [] OTHER -> InputIndexByte(o, (k - 1) * (8 \div o.depth), y, 8 - o.depth))
        ELSE IF o.seed = 0 THEN 129
        ELSE IF o.seed % 2 = 0
        THEN (IF (((k - 1) \div pixel) + y) % 2 = 0 THEN 129 ELSE 66)
        ELSE (k * 37 + y * 101 + o.seed * 53) % 256

\* channel c (from 0) of the pixel (x, y) of such an input as the format lays
\* it out: samples most significant bit first, 16-bit samples big-endian
InputSample(o, x, y, c) ==
    LET bpp == CASE o.ct = 0 -> 1 [] o.ct = 2 -> 3 [] o.ct = 3 -> 1 [] o.ct = 4 -> 2 [] OTHER -> 4
        s   == x * bpp + c
        per == 8 \div o.depth
    IN  IF o.depth = 16
        THEN InputKnownByte(o, 2 * s + 1, y) * 256 + InputKnownByte(o, 2 * s + 2, y)
        ELSE (InputKnownByte(o, (s \div per) + 1, y)
                \div (2 ^ (8 - o.depth * ((s % per) + 1)))) % (2 ^ o.depth)

\* the filtered scanlines of an input: for the kinds in PixelKinds lines of
\* filter type 0 holding the known bytes, for another palette image lines of
\* filter type 0 holding the indices 0..3, else lines of every filter type
InputScanlines(o) ==
    IF o.kind \in PixelKinds
    THEN Concat([y \in 1..o.h |->
                    <<0>> \o [k \in 1..InputLineBytes(o) |-> InputKnownByte(o, k, y - 1)]])
    ELSE
    LET line(image, i, y) ==
            IF o.ct = COLORTYPE_PALETTE_COLOR
            THEN <<0>> \o [k \in 1..image.byteWidth |->
                                IF o.kind = "palette" THEN 0 ELSE (k + y) % 4]
            ELSE <<(i + y) % 5>>
                    \o [k \in 1..image.byteWidth |-> (k * 37 + y * 101 + i * 11) % 256]
        lines(images) ==
            Concat([i \in 1..Len(images) |->
                        Concat([y \in 1..images[i].height |-> line(images[i], i, y)])])
    IN  lines(Filter_images(InputInfo(IF InputHeaderKnown(o) THEN o
                                      ELSE [o EXCEPT !.ct = 0, !.depth = 8])))

\* what the IDAT chunks of an input inflate to
InputInflated(o) ==
    LET cut(lines) == IF o.short >= 0 THEN Slice(lines, 0, Len(lines) - o.short)
                      ELSE lines \o Zeros(-o.short)
    IN  cut(InputScanlines(o))

\* the body of the n-th chunk of an input
InputChunkData(o, n) ==
    LET name == Layout(o.layout)[n]
        \* idat: the zlib stream of the image; a split layout cuts it after 3 bytes
        body(idat) ==
            IF o.layout # "split" THEN idat
            ELSE IF n = 2 THEN Slice(idat, 0, Min(3, Len(idat)))
            ELSE SliceFrom(idat, Min(3, Len(idat)))
    IN  CASE name = "IHDR" ->
                Slice(WriteUInt32BE(o.w) \o WriteUInt32BE(o.h)
                        \o <<o.depth, o.ct, o.compr, o.filter, o.ilace>>
                        \o Zeros(Max(0, o.ihdrLen - 13)),
                      0, o.ihdrLen)
          \* a second header: a greyscale image with as many bytes to the line
          [] name = "IHDR2" ->
                WriteUInt32BE(o.w * COLORTYPE_TO_BPP_MAP[o.ct]) \o WriteUInt32BE(o.h)
                    \o <<8, COLORTYPE_GRAYSCALE, 0, 0, 0>>
          [] name = "gAMA" -> WriteUInt32BE(45455)
          [] name = "PLTE" -> [k \in 1..o.plen |-> (k * 10) % 256]
          [] name = "tRNS" ->
                IF o.kind = "trans"
                THEN Concat([c \in 1..(IF o.ct = 0 THEN 1 ELSE 3) |->
                                <<InputSample(o, 0, 0, c - 1) \div 256,
                                  InputSample(o, 0, 0, c - 1) % 256>>])
                ELSE IF o.ct = COLORTYPE_PALETTE_COLOR THEN <<0, 128>>
                ELSE IF o.ct = COLORTYPE_GRAYSCALE THEN <<0, 48>>
                ELSE <<0, 48, 0, 85, 0, 122>>
          [] name = "teSt" -> [k \in 1..o.ulen |-> k]
          [] name = "IEND" -> <<>>
          [] name = "IDAT" ->
                body([Deflate(InputInflated(o)) EXCEPT ![1] = o.zhead])

InputChunkType(name) ==
    CASE name = "IHDR" -> TYPE_IHDR
      [] name = "IHDR2" -> TYPE_IHDR
      [] name = "IDAT" -> TYPE_IDAT
      [] name = "IEND" -> TYPE_IEND
      [] name = "PLTE" -> TYPE_PLTE
      [] name = "tRNS" -> TYPE_tRNS
      [] name = "gAMA" -> TYPE_gAMA
      [] name = "teSt" -> TYPE_teSt

\* the n-th chunk of an input; the chunk o.bad carries a CRC that is not the CRC
\* of its type and data
InputChunk(o, n) ==
    LET name == Layout(o.layout)[n]
        damaged(chunk) ==
            IF o.bad # n THEN chunk
            ELSE [chunk EXCEPT ![Len(chunk)] = (@ + 1) % 256]
    IN  damaged(Packer_packChunk(IF name = "teSt" THEN o.utype ELSE InputChunkType(name),
                                 InputChunkData(o, n)))

\* the bytes of an input: signature, chunks, o.extra bytes after the last chunk,
\* and of all that the first o.keep bytes (-1: all of it)
InputBytes(o) ==
    LET signature == IF o.sig = "ok" THEN PNG_SIGNATURE
                     ELSE IF o.sig = "text" THEN <<73, 32, 65, 77, 32, 78, 79, 84>>
                     ELSE [PNG_SIGNATURE EXCEPT ![8] = 11]
        kept(all) == IF o.keep < 0 THEN all ELSE Slice(all, 0, o.keep)
    IN  kept(signature \o Concat([n \in 1..Len(Layout(o.layout)) |-> InputChunk(o, n)])
                       \o [k \in 1..o.extra |-> 0])

\* a raster of 4 * w * h bytes
RasterData(o) ==
    [i \in 1..(4 * o.w * o.h) |->
        CASE o.seed = 0 -> 255
          [] o.seed = 1 -> (i * 29 + 3) % 256
          [] OTHER      -> (i * i * o.seed + 53 * o.seed + (i \div 4) * 7) % 256]

\* the samples per pixel and the bytes per sample bitPacker reads under the
\* options of an origin
EncodeSamples(o) ==
    IF o.colorType = o.inputColorType /\ o.bitDepth \in {0, 8}
    THEN CASE o.colorType = 0 -> 1 [] o.colorType = 2 -> 3 [] o.colorType = 4 -> 2 [] OTHER -> 4
    ELSE CASE o.inputColorType = 0 -> 1
           [] o.inputColorType = 2 -> 3
           [] o.inputColorType = 4 -> 2
           [] OTHER -> IF o.inputHasAlpha THEN 4 ELSE 3

\* a raster for an encode with options: as many samples as bitPacker reads
EncodeData(o) ==
    [i \in 1..(o.w * o.h * EncodeSamples(o) * (IF o.bitDepth = 16 THEN 2 ELSE 1)) |->
        IF o.seed = 0 THEN 255 ELSE (i * 29 + o.seed * 53 + (i \div 5) * 7) % 256]

Origin(kind, sig, layout, ct, depth, interlace, w, h, bad, keep, extra, checkCRC, seed, filterType) ==
    [kind |-> kind, sig |-> sig, layout |-> layout, ct |-> ct, depth |-> depth,
     interlace |-> interlace, w |-> w, h |-> h, bad |-> bad, keep |-> keep,
     extra |-> extra, checkCRC |-> checkCRC, seed |-> seed, filterType |-> filterType,
     \* the compression, filter and interlace bytes of IHDR
     compr |-> 0, filter |-> 0, ilace |-> IF interlace THEN 1 ELSE 0,
     \* the length of the IHDR body
     ihdrLen |-> 13,
     \* the type and the body length of the chunk "teSt" of the layout "unknown"
     utype |-> TYPE_teSt, ulen |-> 3,
     \* the options of an encode other than filterType, and the raster's gamma
     bitDepth |-> 8, colorType |-> 6, inputColorType |-> 6, inputHasAlpha |-> TRUE,
     deflateChunkSize |-> 32768, gamma |-> <<0, 1>>,
     \* the bytes missing at the end of the scanlines before they are deflated
     \* (below zero: bytes more than the scanlines)
     short |-> 0,
     \* the bgColor of the options of an encode, -1 for a channel not given
     bgColor |-> [red |-> -1, green |-> -1, blue |-> -1],
     \* the first byte of the compressed data
     zhead |-> Head(ZLIB_HEADER),
     \* the length of the body of a PLTE chunk
     plen |-> 12]

\* rasters to encode and decode again
RasterOrigins ==
    { Origin("raster", "ok", "plain", 6, 8, FALSE, w, h, 0, -1, 0, TRUE, seed, filterType) :
        w \in 1..MaxWidth, h \in 1..MaxHeight, seed \in 0..MaxSeed, filterType \in -1..4 }

\* images of every colour type, bit depth and interlace mode
FormatOrigins ==
    { Origin("stream", "ok", IF ct = 3 THEN "plte" ELSE "plain", ct, depth, interlace,
             w, h, 0, -1, 0, TRUE, 0, 0) :
        ct \in {0, 2, 3, 4, 6}, depth \in {1, 2, 4, 8, 16}, interlace \in BOOLEAN,
        w \in 1..MaxWidth, h \in 1..MaxHeight }

LayoutColorType(layout) ==
    CASE layout \in {"plte", "lateplte"} -> 3
      [] layout \in {"trns", "latetrns"} -> 2
      [] OTHER -> 6

Layouts ==
    {"plain", "gama", "lategama", "plte", "lateplte", "trns", "latetrns", "unknown",
     "split", "noiend"}

\* every layout, with one chunk or none carrying a wrong CRC, with and without a
\* byte after the last chunk, with and without CRC checking
LayoutOrigins ==
    { Origin("stream", "ok", layout, LayoutColorType(layout), 8, FALSE, 2, 1, bad, -1,
             extra, checkCRC, 0, 0) :
        layout \in Layouts, bad \in 0..5, extra \in {0, 1}, checkCRC \in BOOLEAN }

\* chunks out of order: a first chunk that is not IHDR, and palette images whose
\* tRNS or IDAT comes before any PLTE
OrderLayouts ==
    {"gamafirst", "idatfirst", "iendfirst", "trnsfirst", "idatplte", "noplte"}

OrderOrigins ==
    { Origin("stream", "ok", layout,
             IF layout \in {"trnsfirst", "idatplte", "noplte"} THEN 3 ELSE ct,
             depth, FALSE, 2, 1, 0, -1, 0, checkCRC, 0, 0) :
        layout \in OrderLayouts, ct \in {3, 6}, depth \in {4, 8}, checkCRC \in BOOLEAN }

\* IHDR chunks with every combination of known and unknown field values
HeaderOrigins ==
    { [Origin("header", "ok", IF ct = 3 THEN "plte" ELSE "plain", ct, depth, m[3] = 1,
              2, 1, 0, -1, 0, TRUE, 0, 0)
          EXCEPT !.compr = m[1], !.filter = m[2], !.ilace = m[3]] :
        ct \in 0..7, depth \in {0, 1, 2, 3, 4, 8, 16, 32},
        m \in {<<0, 0, 0>>, <<0, 0, 1>>, <<0, 0, 2>>, <<1, 0, 0>>, <<0, 1, 0>>, <<0, 0, 255>>} }

\* IHDR chunks of every length around 13, the first 13 bytes being good ones
IhdrLengths == {0, 7, 8, 12, 13, 14, 17}

LengthOrigins ==
    { [Origin("length", "ok", "plain", ct, 8, FALSE, 2, 1, 0, -1, 0, checkCRC, 0, 0)
          EXCEPT !.ihdrLen = n] :
        ct \in {0, 6}, n \in IhdrLengths, checkCRC \in BOOLEAN }

\* chunk types no handler is registered for: ancillary and critical ones made
\* of letters, and ones with a byte next to the letters' ranges
UnknownTypes ==
    { <<116, 101, 83, 116>>, <<122, 122, 122, 122>>, <<97, 65, 97, 90>>,
      <<84, 101, 83, 116>>, <<65, 65, 65, 65>>, <<90, 122, 97, 97>>,
      <<116, 101, 49, 116>>, <<91, 101, 83, 116>>, <<116, 96, 83, 116>>,
      <<116, 101, 83, 123>>, <<64, 101, 83, 116>>, <<116, 101, 83, 32>> }

UnknownOrigins ==
    { [Origin("unknown", "ok", "unknown", 6, 8, FALSE, 2, 1, 0, -1, 0, checkCRC, 0, 0)
          EXCEPT !.utype = t, !.ulen = n] :
        t \in UnknownTypes, n \in {0, 3, 9}, checkCRC \in BOOLEAN }

\* grayscale and truecolour images of every depth with a tRNS chunk that names
\* the colour of their first pixel
TransOrigins ==
    { Origin("trans", "ok", "trns", ct, depth, FALSE, w, h, 0, -1, 0, TRUE, seed, 0) :
        ct \in {0, 2}, depth \in {1, 2, 4, 8, 16}, w \in 1..MaxWidth, h \in 1..2,
        seed \in 0..MaxSeed }

\* palette images of every depth with a palette of four entries, two of them
\* given an alpha by tRNS
IndexOrigins ==
    { Origin("index", "ok", "plte", 3, depth, FALSE, w, h, 0, -1, 0, TRUE, seed, 0) :
        depth \in {1, 2, 4, 8, 16}, w \in 1..MaxWidth, h \in 1..2, seed \in 0..MaxSeed }

\* images without palette and without tRNS, of every colour type and depth
PixelOrigins ==
    { Origin("pixels", "ok", "plain", ct, depth, FALSE, w, h, 0, -1, 0, TRUE, seed, 0) :
        ct \in {0, 2, 4, 6}, depth \in {1, 2, 4, 8, 16}, w \in 1..MaxWidth, h \in 1..2,
        seed \in 0..MaxSeed }

\* the chunk sizes of the Deflate stream: the least one zlib takes, and the
\* Packer's default
DeflateChunkSizes == {64, 32768}

\* rasters to encode under every combination of options, accepted or not, with
\* and without a gamma
EncodeOrigins ==
    { [Origin("encode", "ok", "plain", 6, 8, FALSE, w, h, 0, -1, 0, TRUE, seed, -1)
          EXCEPT !.bitDepth = bitDepth, !.colorType = colorType,
                 !.inputColorType = inputColorType, !.inputHasAlpha = inputHasAlpha,
                 !.deflateChunkSize = chunkSize, !.gamma = gamma] :
        bitDepth \in {0, 4, 8, 16}, colorType \in {0, 2, 3, 4, 6},
        inputColorType \in {0, 2, 3, 4, 6},
        inputHasAlpha \in BOOLEAN, chunkSize \in DeflateChunkSizes,
        gamma \in {<<0, 1>>, <<5, 11>>, <<1, 200000>>},
        w \in {1, MaxWidth}, h \in {1, MaxHeight}, seed \in {MaxSeed} }

\* palette images whose PLTE chunk has a length that is or is not a multiple
\* of 3, up to one entry more than 256, and images with two PLTE chunks
PlteLengths == {0, 3, 4, 5, 12, 768, 771}

PaletteOrigins ==
    { [Origin("palette", "ok", layout, 3, 8, FALSE, 2, 1, 0, -1, 0, checkCRC, 0, 0)
            EXCEPT !.plen = plen] :
        layout \in {"pal", "twoplte"}, plen \in PlteLengths, checkCRC \in BOOLEAN }

\* images whose IHDR declares a width or a height of 0
ZeroOrigins ==
    { Origin("zero", "ok", "plain", ct, 8, interlace, w, h, 0, -1, 0, TRUE, 0, 0) :
        ct \in {0, 6}, interlace \in BOOLEAN, w \in 0..1, h \in 0..2 }

\* streams with a second IHDR chunk, before or after the image data
AgainOrigins ==
    { Origin("again", "ok", layout, ct, 8, FALSE, w, h, 0, -1, 0, checkCRC, 0, 0) :
        layout \in {"twoihdr", "lateihdr"}, ct \in {2, 6}, w \in 1..2, h \in 1..2,
        checkCRC \in BOOLEAN }

\* images whose IDAT chunks inflate to fewer or more bytes than the scanlines
\* of the image take
ShortBy == {-1, 0, 1, 2, 5, 100}

ShortOrigins ==
    { [Origin("short", "ok", "plain", ct, depth, FALSE, w, h, 0, -1, 0, TRUE, 0, 0)
            EXCEPT !.short = short] :
        ct \in {0, 2, 6}, depth \in {1, 8, 16}, w \in 1..MaxWidth, h \in 1..MaxHeight,
        short \in ShortBy }

\* images whose compressed data does not start as a zlib stream does
DamagedOrigins ==
    { [Origin("damaged", "ok", layout, ct, 8, FALSE, w, 1, 0, -1, 0, TRUE, 0, 0)
            EXCEPT !.zhead = 0] :
        layout \in {"plain", "split"}, ct \in {0, 6}, w \in 1..MaxWidth }

\* encodes of a raster with alpha to an image without, with a background
\* colour of three channels, of one channel and without one
BackgroundOrigins ==
    { [Origin("encode", "ok", "plain", 6, 8, FALSE, w, h, 0, -1, 0, TRUE, seed, -1)
          EXCEPT !.colorType = colorType, !.inputColorType = inputColorType,
                 !.bgColor = bgColor] :
        colorType \in {0, 2}, inputColorType \in {4, 6},
        bgColor \in { [red |-> -1, green |-> -1, blue |-> -1],
                      [red |-> 0, green |-> 128, blue |-> 255],
                      [red |-> 7, green |-> -1, blue |-> -1] },
        w \in 1..MaxWidth, h \in 1..MaxHeight, seed \in 1..MaxSeed }

\* inputs read by a Parser that was given a finished callback
DirectOrigins ==
    { Origin("direct", "ok", layout, 6, 8, FALSE, 1, 1, bad, keep, 0, checkCRC, 0, 0) :
        layout \in {"plain", "split", "lategama", "iendfirst", "idatfirst"},
        bad \in 0..4, keep \in {-1, 40}, checkCRC \in BOOLEAN }

\* every proper prefix of a one-pixel image
TruncatedOrigins ==
    { Origin("stream", "ok", "plain", 6, 8, FALSE, 1, 1, 0, keep, 0, TRUE, 0, 0) :
        keep \in 0..62 }

\* inputs that do not start with the signature: eight bytes alone, and eight
\* bytes followed by more
SignatureOrigins ==
    { Origin("stream", sig, "plain", 6, 8, FALSE, 1, 1, 0, keep, 0, TRUE, 0, 0) :
        sig \in {"text", "last"}, keep \in {-1, 8, 9, 20} }

Origins ==
    RasterOrigins \cup FormatOrigins
        \cup { o \in LayoutOrigins : o.bad <= Len(Layout(o.layout)) }
        \cup TruncatedOrigins \cup SignatureOrigins
        \cup OrderOrigins \cup HeaderOrigins \cup LengthOrigins \cup UnknownOrigins
        \cup TransOrigins \cup IndexOrigins \cup PixelOrigins
        \cup { o \in ShortOrigins : InputHeaderKnown(o) }
        \cup AgainOrigins
        \cup DirectOrigins
        \cup { o \in ZeroOrigins : o.w = 0 \/ o.h = 0 }
        \cup { o \in PaletteOrigins : o.layout = "twoplte" => o.plen \in {3, 12} }

DecodeOptions(o) == [checkCRC |-> o.checkCRC, skipRescale |-> FALSE]

PackOptions(o) ==
    [bitDepth |-> o.bitDepth, colorType |-> o.colorType, inputColorType |-> o.inputColorType,
     inputHasAlpha |-> o.inputHasAlpha, deflateChunkSize |-> o.deflateChunkSize,
     filterType |-> o.filterType, bgColor |-> o.bgColor]

\* the raster of an origin, as packSync and PackerAsync.pack take it
RasterMetaData(o) ==
    [width |-> o.w, height |-> o.h, gamma |-> o.gamma,
     data |-> IF o.kind = "encode" THEN EncodeData(o) ELSE RasterData(o)]

\* the inputs the streaming decoder is fed as well
StreamOrigins ==
    { o \in LayoutOrigins :
        /\ o.checkCRC
        /\ o.layout \in {"plain", "noiend", "split", "lategama", "trns"}
        /\ o.bad \in {0, 2} }
        \cup { o \in TruncatedOrigins : o.keep \in {0, 5, 8, 12, 20, 30, 51, 59} }
        \cup { o \in SignatureOrigins : o.keep \in {8, 9} }
        \cup DamagedOrigins

\* the inputs written to a bare ChunkStream
ChunkOrigins ==
    { o \in StreamOrigins :
        /\ o.kind = "stream"
        /\ o.layout = "plain"
        /\ o.bad = 0
        /\ o.extra = 0
        /\ o.keep \in {-1, 0, 5, 20} }

\* the demands of the client of a bare ChunkStream, in order: none, those of a
\* parser of a small image, short ones with demands of no byte, one that
\* allows less at once, and one for more than is ever written
ChunkPlans ==
    { <<>>, <<8, 8, 13, 4, 8, -14, 4, 8, 0, 4>>, <<1, 0, -1, 2, 0, 40, -3>>,
      <<-100, -100, 3, -100>>, <<200>> }

\* the sizes of the pieces a host writes
PieceSizes == {1, 2, 8, 33}

\* the writes of a host before it ends the stream
MaxWrites == 3

----------------------------------------------------------------------------
(* A host with two streaming decoders and a streaming encoder at once: ps.a  *)
(* is written the input, ps.b a shorter stream, the encoder packs the raster *)
(* of the origin, and the host makes its calls in any order.                 *)

\* what the host has called on one decoder so far
NoCalls == [pos |-> 0, calls |-> <<>>, ended |-> FALSE]

PairOrigins ==
    { o \in StreamOrigins : o.layout \in {"plain", "trns"} /\ o.kind = "stream"
                                /\ o.sig = "ok" /\ o.keep = -1 /\ o.extra = 0 }

\* the stream the host writes to each decoder: the input, and the input
\* without its IEND chunk
PairInput(bytes, i) == IF i = "a" THEN bytes ELSE Slice(bytes, 0, Len(bytes) - 12)

\* the sizes of the pieces the host writes to each decoder
PairSizes(i) == IF i = "a" THEN {25, 40} ELSE {40}

RECURSIVE ParserAsync_alone(_, _, _, _, _)
\* a decoder that is given the calls from the k-th on, and nothing else happens
ParserAsync_alone(ctx, bytes, calls, k, pos) ==
    IF k > Len(calls) THEN ctx
    ELSE IF calls[k].op = "write"
    THEN LET written == ChunkStream_write(ctx, Slice(bytes, pos, pos + calls[k].n))
         IN  ParserAsync_alone(IF calls[k].drain THEN EventLoop(written) ELSE written,
                               bytes, calls, k + 1, pos + calls[k].n)
    ELSE ParserAsync_alone(EventLoop(ChunkStream_end(ctx, pos < Len(bytes),
                                                     SliceFrom(bytes, pos))),
                           bytes, calls, k + 1, Len(bytes))

RECURSIVE PackerAsync_alone(_, _)
\* the states of an encoder that packs the raster of o, and nothing else happens
PackerAsync_alone(enc0, o) ==
    {enc0} \cup
        (IF enc0.phase = "new"
         THEN PackerAsync_alone(PackerAsync_pack(enc0, RasterMetaData(o).data, o.w, o.h,
                                                 o.gamma), o)
         ELSE IF enc0.phase = "deflating" /\ enc0.deflate # <<>>
         THEN PackerAsync_alone(PackerAsync_onDeflateData(
                                    [enc0 EXCEPT !.deflate = Tail(@)], Head(enc0.deflate)), o)
         ELSE IF enc0.phase = "deflating"
         THEN PackerAsync_alone(PackerAsync_onDeflateEnd(enc0), o)
         ELSE {})

----------------------------------------------------------------------------
(* png.ts: PNG.bitblt *)

\* source.copy(target, targetStart, sourceStart, sourceEnd) of node:buffer: a
\* negative offset, or a sourceStart behind the source, is a RangeError
Buffer_copy(source, target, targetStart, sourceStart, sourceEnd) ==
    IF targetStart < 0 \/ sourceStart < 0 \/ sourceStart > Len(source) \/ sourceEnd < 0
    THEN [thrown |-> "RangeError", out |-> target]
    ELSE IF targetStart >= Len(target) \/ sourceStart >= sourceEnd
    THEN [thrown |-> "none", out |-> target]
    ELSE LET nb == Min(Min(sourceEnd, Len(source)) - sourceStart, Len(target) - targetStart)
         IN  [thrown |-> "none",
              out |-> [i \in 1..Len(target) |->
                          IF i > targetStart /\ i <= targetStart + nb
                          THEN source[sourceStart + (i - targetStart)]
                          ELSE target[i]]]

RECURSIVE PNG_bitblt_rows(_, _, _, _, _, _, _, _, _)
\* the loop over y of PNG.bitblt, from row y on: dst.data after it and what
\* was thrown
PNG_bitblt_rows(src, dst, srcX, srcY, width, height, deltaX, deltaY, y) ==
    IF y >= height THEN [thrown |-> "none", out |-> dst.data]
    ELSE LET copied == Buffer_copy(src.data, dst.data,
                                   ((deltaY + y) * dst.width + deltaX) * 4,
                                   ((srcY + y) * src.width + srcX) * 4,
                                   ((srcY + y) * src.width + srcX + width) * 4)
         IN  IF copied.thrown # "none" THEN copied
             ELSE PNG_bitblt_rows(src, [dst EXCEPT !.data = copied.out], srcX, srcY, width,
                                  height, deltaX, deltaY, y + 1)

\* PNG.bitblt(src, dst, srcX, srcY, width, height, deltaX, deltaY): dst.data
\* after the call and what was thrown
PNG_bitblt(src, dst, srcX, srcY, width, height, deltaX, deltaY) ==
    IF \/ srcX > src.width
       \/ srcY > src.height
       \/ srcX + width > src.width
       \/ srcY + height > src.height
    THEN [thrown |-> "bitblt reading outside image", out |-> dst.data]
    ELSE IF \/ deltaX > dst.width
            \/ deltaY > dst.height
            \/ deltaX + width > dst.width
            \/ deltaY + height > dst.height
    THEN [thrown |-> "bitblt writing outside image", out |-> dst.data]
    ELSE PNG_bitblt_rows(src, dst, srcX, srcY, width, height, deltaX, deltaY, 0)

----------------------------------------------------------------------------
(* Calls of the library's functions on their own: the interlace passes of an *)
(* image and the iterator over them, the Paeth predictor, and a              *)
(* CrcCalculator that is written a buffer in pieces.                         *)

NoCall ==
    [fn |-> "none", phase |-> "done", args |-> <<>>, bytes |-> <<>>, cuts |-> {},
     pos |-> 0, crc |-> CRC_INITIAL, passes |-> <<>>, next |-> 1, hits |-> <<>>,
     out |-> 0, word |-> CRC_INITIAL, static |-> CRC_INITIAL,
     filtered |-> <<>>, unfiltered |-> <<>>,
     src |-> <<>>, dst |-> <<>>, inflated |-> <<>>, thrown |-> "none"]

Call(fn, args) == [NoCall EXCEPT !.fn = fn, !.phase = "call", !.args = args]

\* the sides of the images whose passes are computed
MaxSide == 12

\* the bytes the predictor is called with
PaethValues == {0, 1, 2, 3, 4, 100, 127, 128, 129, 253, 254, 255}

\* the buffers a CrcCalculator is written: nothing, single bytes, "123456789",
\* the type IEND, four bytes 255, the type and body of a gAMA chunk, five zeros
CrcInputs ==
    { <<>>, <<0>>, <<97>>, <<49, 50, 51, 52, 53, 54, 55, 56, 57>>, <<73, 69, 78, 68>>,
      <<255, 255, 255, 255>>, <<103, 65, 77, 65, 0, 0, 177, 142>>, <<0, 0, 0, 0, 0>> }

\* the sides of the images whose scanlines are filtered and unfiltered
MaxFilterSide == 3

\* the pixel data packFilter is called with: width * height pixels of bpp
\* samples of depth / 8 bytes
FilterInput(w, h, bpp, depth, seed) ==
    [i \in 1..(w * h * bpp * (depth \div 8)) |->
        CASE seed = 0 -> (i * 97 + 200) % 256
          [] seed = 1 -> IF i % 3 = 0 THEN 255 ELSE (i * i) % 256
          [] OTHER    -> (256 - ((i * 41) % 256)) % 256]

FilterCalls ==
    { [Call("packFilter", <<f, w, h, bpp, depth>>)
            EXCEPT !.bytes = FilterInput(w, h, bpp, depth, seed)] :
        f \in -1..4, w \in 1..MaxFilterSide, h \in 1..MaxFilterSide, bpp \in 1..4,
        depth \in {8, 16}, seed \in 0..2 }

\* the sides of the interlaced images whose scanlines are unfiltered
MaxPassSide == 5

\* the first column and row of Adam7 pass p (from 0) and the steps between
\* its columns and rows
Adam7 ==
    << <<0, 8, 0, 8>>, <<4, 8, 0, 8>>, <<0, 4, 4, 8>>, <<2, 4, 0, 4>>, <<0, 2, 2, 4>>,
       <<1, 2, 0, 2>>, <<0, 1, 1, 2>> >>

\* the pixels of one side of a pass: those at first, first + step, .. below side
PassPixels(first, step, side) == IF side > first THEN (side - first + step - 1) \div step ELSE 0

\* the bytes of a scanline and the number of scanlines of each Adam7 pass of an
\* image that has pixels, in the order of the passes
PassLines(w, h, bpp, depth) ==
    SelectSeq([p \in 1..7 |->
                    [bytes |-> (PassPixels(Adam7[p][1], Adam7[p][2], w) * bpp * depth + 7) \div 8,
                     lines |-> PassPixels(Adam7[p][3], Adam7[p][4], h)]],
              LAMBDA pass : pass.bytes > 0 /\ pass.lines > 0)

\* the filtered scanlines of an interlaced image, every one with filter f
PassInput(f, w, h, bpp, depth) ==
    Concat([p \in 1..Len(PassLines(w, h, bpp, depth)) |->
        Concat([y \in 1..PassLines(w, h, bpp, depth)[p].lines |->
            <<f>> \o [x \in 1..PassLines(w, h, bpp, depth)[p].bytes |->
                        (p * 83 + y * 59 + x * 101 + 77) % 256]])])

PassCalls ==
    { [Call("processSync", <<f, w, h, bpp, depth>>)
            EXCEPT !.bytes = PassInput(f, w, h, bpp, depth)] :
        f \in 0..4, w \in 1..MaxPassSide, h \in 1..MaxPassSide, bpp \in {1, 3},
        depth \in {1, 8, 16} }

\* the greatest coordinate and side a rectangle is copied with
MaxBlit == 2

\* an image of width x height pixels whose bytes are first + 1, first + 2, ..
BlitImage(width, height, first) ==
    [width |-> width, height |-> height,
     data |-> [i \in 1..(4 * width * height) |-> first + i]]

\* PNG.bitblt from an image of 3 x 2 pixels to one of 2 x 3 or of 3 x 3
BlitCalls ==
    { [Call("bitblt", <<srcX, srcY, width, height, deltaX, deltaY>>)
            EXCEPT !.src = BlitImage(3, 2, 0), !.dst = BlitImage(dw, 3, 100)] :
        srcX \in -1..MaxBlit, srcY \in -1..MaxBlit, width \in 0..MaxBlit,
        height \in 0..MaxBlit, deltaX \in -1..MaxBlit, deltaY \in -1..MaxBlit,
        dw \in {2, 3} }

\* the longest data that is inflated
MaxInflated == 200

\* inflateSync(deflateSync(data), {chunkSize, maxLength}) under a binding that
\* checks the bounds of its input or one that does not
InflateCalls ==
    { [Call("inflateSync", <<chunkSize, maxLength, bounds>>)
            EXCEPT !.bytes = Deflate([k \in 1..len |-> (k * 7) % 256])] :
        len \in {0, 10, 64, 65, 128, MaxInflated},
        chunkSize \in {0, 1, 64, 80},
        maxLength \in {-1, 0, 10, 64, 70, 150},
        bounds \in {"checked", "unchecked"} }

\* a CrcCalculator call is a buffer and the positions where the host cuts it
PureCalls ==
    { Call("getImagePasses", <<w, h>>) : w \in 1..MaxSide, h \in 1..MaxSide }
        \cup { Call("paethPredictor", <<a, b, c>>) :
                    a \in PaethValues, b \in PaethValues, c \in PaethValues }
        \cup UNION { { [Call("crc", <<>>) EXCEPT !.bytes = bytes, !.cuts = cuts] :
                        cuts \in SUBSET (1..(Len(bytes) - 1)) } : bytes \in CrcInputs }
        \cup FilterCalls
        \cup PassCalls
        \cup BlitCalls
        \cup InflateCalls

\* the positions getInterlaceIterator gives the pixels of one pass, in scan order
InterlacePositions(width, image) ==
    [k \in 1..(image.width * image.height) |->
        getInterlaceIterator(width, (k - 1) % image.width, (k - 1) \div image.width,
                             image.index)]

----------------------------------------------------------------------------
(* The state machine: one-shot encode and decode, and a host driving two     *)
(* streaming decoders over the same input: ps.b is written the whole input   *)
(* in one piece, ps.a is written it in pieces.                               *)

Pending ==
    [status |-> "pending", error |-> "none", width |-> 0, height |-> 0, data |-> <<>>,
     gamma |-> 0, alpha |-> FALSE]

InitFor(origins, hostPhase) ==
    /\ origin \in origins
    /\ input = IF origin.kind \in {"raster", "encode"} THEN <<>> ELSE InputBytes(origin)
    /\ rd = [phase |-> IF origin.kind \in {"raster", "encode"} THEN "raster" ELSE "idle",
             ctx   |-> NewContext("sync", <<>>, DecodeOptions(origin))]
    /\ result = Pending
    /\ ps = [a |-> NewParserAsync(DecodeOptions(origin)),
             b |-> NewParserAsync(DecodeOptions(origin))]
    /\ host = [phase |-> hostPhase, pos |-> 0, pieces |-> <<>>, ended |-> FALSE,
               late |-> FALSE, pair |-> [a |-> NoCalls, b |-> NoCalls]]
    /\ enc = NewPackerAsync(PackOptions(origin))
    /\ calc = NoCall

Init == InitFor(Origins, "off")

InitStream == InitFor(StreamOrigins, "whole")

\* the host writes to two ChunkStreams that a Parser reads from
InitChunk ==
    /\ origin \in ChunkOrigins
    /\ input = InputBytes(origin)
    /\ rd = [phase |-> "idle", ctx |-> NewContext("sync", <<>>, DecodeOptions(origin))]
    /\ result = Pending
    /\ \E plan \in ChunkPlans :
            ps = [a |-> NewChunkStream(DecodeOptions(origin), plan),
                  b |-> NewChunkStream(DecodeOptions(origin), plan)]
    /\ host = [phase |-> "whole", pos |-> 0, pieces |-> <<>>, ended |-> FALSE,
               late |-> FALSE, pair |-> [a |-> NoCalls, b |-> NoCalls]]
    /\ enc = NewPackerAsync(PackOptions(origin))
    /\ calc = NoCall

InitEncode == InitFor(EncodeOrigins \cup BackgroundOrigins, "off")

InitPair == InitFor(PairOrigins, "pair")

\* no codec instance is at work; one function is about to be called
InitPure ==
    /\ origin = Origin("call", "ok", "plain", 6, 8, FALSE, 1, 1, 0, -1, 0, TRUE, 0, 0)
    /\ input = <<>>
    /\ rd = [phase |-> "off", ctx |-> NewContext("sync", <<>>, DecodeOptions(origin))]
    /\ result = Pending
    /\ ps = [a |-> NewParserAsync(DecodeOptions(origin)),
             b |-> NewParserAsync(DecodeOptions(origin))]
    /\ host = [phase |-> "off", pos |-> 0, pieces |-> <<>>, ended |-> FALSE, late |-> FALSE,
               pair |-> [a |-> NoCalls, b |-> NoCalls]]
    /\ enc = NewPackerAsync(PackOptions(origin))
    /\ calc \in PureCalls

\* packSync(png, options) on the raster of the origin
PackSync ==
    /\ rd.phase = "raster"
    /\ LET returned(packed) ==
                IF packed.thrown # "none"
                THEN /\ result' = Failed(packed.thrown)
                     /\ rd' = [rd EXCEPT !.phase = "done"]
                     /\ UNCHANGED input
                ELSE /\ input' = packed.out
                     /\ rd' = [rd EXCEPT !.phase = "idle"]
                     /\ UNCHANGED result
       IN  returned(packSync(RasterMetaData(origin), PackOptions(origin)))
    /\ UNCHANGED <<origin, ps, host, enc, calc>>

\* encoder.pack(data, width, height, gamma) on the raster of the origin
Pack ==
    /\ enc.phase = "new"
    /\ enc' = PackerAsync_pack(enc, RasterMetaData(origin).data, origin.w, origin.h,
                               origin.gamma)
    /\ UNCHANGED <<input, origin, rd, result, ps, host, calc>>

\* the Deflate stream emits 'data'
DeflateData ==
    /\ enc.phase = "deflating"
    /\ enc.deflate # <<>>
    /\ enc' = PackerAsync_onDeflateData([enc EXCEPT !.deflate = Tail(@)], Head(enc.deflate))
    /\ UNCHANGED <<input, origin, rd, result, ps, host, calc>>

\* the Deflate stream emits 'end'
DeflateEnd ==
    /\ enc.phase = "deflating"
    /\ enc.deflate = <<>>
    /\ enc' = PackerAsync_onDeflateEnd(enc)
    /\ UNCHANGED <<input, origin, rd, result, ps, host, calc>>

\* parseSync(input, options) up to reader.process()
ParseSyncStart ==
    /\ rd.phase = "idle"
    /\ rd' = [phase |-> "reading",
              ctx   |-> IF origin.kind = "direct"
                        THEN Parser_direct(input, DecodeOptions(origin))
                        ELSE ParseSync_start(input, DecodeOptions(origin))]
    /\ UNCHANGED <<input, origin, result, ps, host, enc, calc>>

\* one turn of the loop of reader.process()
ReaderStep ==
    /\ rd.phase = "reading"
    /\ SyncReader_canServe(rd.ctx)
    /\ rd' = [rd EXCEPT !.ctx = SyncReader_serve(rd.ctx)]
    /\ UNCHANGED <<input, origin, result, ps, host, enc, calc>>

\* the loop of reader.process() is left, and parseSync runs to its end
ParseSyncFinish ==
    /\ rd.phase = "reading"
    /\ ~SyncReader_canServe(rd.ctx)
    /\ LET ctx == SyncReader_finish(rd.ctx)
       IN  /\ rd' = [phase |-> "done", ctx |-> ctx]
           /\ result' = ParseSync_finish(ctx)
    /\ UNCHANGED <<input, origin, ps, host, enc, calc>>

\* the host writes the whole input to ps.b in one write()
WholeWrite ==
    /\ rd.phase = "done"
    /\ host.phase = "whole"
    /\ ps' = [ps EXCEPT !.b = EventLoop(ChunkStream_write(ps.b, input))]
    /\ host' = [host EXCEPT !.phase = "wholeEnd"]
    /\ UNCHANGED <<input, origin, rd, result, enc, calc>>

\* the host calls end() on ps.b
WholeEnd ==
    /\ host.phase = "wholeEnd"
    /\ ps' = [ps EXCEPT !.b = EventLoop(ChunkStream_end(ps.b, FALSE, <<>>))]
    /\ host' = [host EXCEPT !.phase = "pieces"]
    /\ UNCHANGED <<input, origin, rd, result, enc, calc>>

\* the host writes the next n bytes of the input to ps.a, and then either lets
\* the event loop run or goes on in the same tick
Write(n, drain) ==
    /\ host.phase = "pieces"
    /\ ~host.ended
    /\ Len(host.pieces) < MaxWrites
    /\ host.pos + n <= Len(input)
    /\ LET settle(c) == IF drain THEN EventLoop(c) ELSE c
       IN  ps' = [ps EXCEPT !.a = settle(ChunkStream_write(
                                            ps.a, Slice(input, host.pos, host.pos + n)))]
    /\ host' = [host EXCEPT !.pos = @ + n, !.pieces = Append(@, n)]
    /\ UNCHANGED <<input, origin, rd, result, enc, calc>>

\* the host ends ps.a: end(rest) while input is left to write, else end()
End ==
    /\ host.phase = "pieces"
    /\ ~host.ended
    /\ ps' = [ps EXCEPT !.a = EventLoop(ChunkStream_end(ps.a, host.pos < Len(input),
                                                        SliceFrom(input, host.pos)))]
    /\ host' = [host EXCEPT !.pos = Len(input), !.ended = TRUE]
    /\ UNCHANGED <<input, origin, rd, result, enc, calc>>

\* a host that writes once more after end()
WriteAfterEnd ==
    /\ host.phase = "pieces"
    /\ host.ended
    /\ ~host.late
    /\ ps' = [ps EXCEPT !.a = EventLoop(ChunkStream_write(ps.a, <<0>>))]
    /\ host' = [host EXCEPT !.late = TRUE]
    /\ UNCHANGED <<input, origin, rd, result, enc, calc>>

Next ==
    \/ PackSync
    \/ ParseSyncStart
    \/ ReaderStep
    \/ ParseSyncFinish

NextStream ==
    \/ ParseSyncStart
    \/ ReaderStep
    \/ ParseSyncFinish
    \/ WholeWrite
    \/ WholeEnd
    \/ \E n \in PieceSizes, drain \in BOOLEAN : Write(n, drain)
    \/ End
    \/ WriteAfterEnd

\* getImagePasses(width, height)
GetImagePasses ==
    /\ calc.fn = "getImagePasses"
    /\ calc.phase = "call"
    /\ calc' = [calc EXCEPT !.phase = "iterate",
                            !.passes = getImagePasses(calc.args[1], calc.args[2])]
    /\ UNCHANGED <<input, origin, rd, result, ps, host, enc>>

\* the iterator of getInterlaceIterator(width) over the pixels of the next pass
InterlaceIterate ==
    /\ calc.phase = "iterate"
    /\ IF calc.next > Len(calc.passes)
       THEN calc' = [calc EXCEPT !.phase = "done"]
       ELSE calc' = [calc EXCEPT !.next = @ + 1,
                                 !.hits = @ \o InterlacePositions(calc.args[1],
                                                                  calc.passes[calc.next])]
    /\ UNCHANGED <<input, origin, rd, result, ps, host, enc>>

\* paethPredictor(left, above, upLeft)
PaethPredictor ==
    /\ calc.fn = "paethPredictor"
    /\ calc.phase = "call"
    /\ calc' = [calc EXCEPT !.phase = "done",
                            !.out = paethPredictor(calc.args[1], calc.args[2], calc.args[3])]
    /\ UNCHANGED <<input, origin, rd, result, ps, host, enc>>

\* crc.write(piece) with the bytes up to the next cut
CrcWrite ==
    /\ calc.fn = "crc"
    /\ calc.phase = "call"
    /\ calc.pos < Len(calc.bytes)
    /\ LET ends == {c \in calc.cuts \cup {Len(calc.bytes)} : c > calc.pos}
           to   == CHOOSE c \in ends : \A d \in ends : c <= d
       IN  calc' = [calc EXCEPT !.pos = to,
                                !.crc = CrcCalculator_write(calc.crc,
                                                            Slice(calc.bytes, calc.pos, to))]
    /\ UNCHANGED <<input, origin, rd, result, ps, host, enc>>

\* crc.crc32() after the last piece, and CrcCalculator.crc32(buf) of the whole
CrcRead ==
    /\ calc.fn = "crc"
    /\ calc.phase = "call"
    /\ calc.pos = Len(calc.bytes)
    /\ calc' = [calc EXCEPT !.phase = "done",
                            !.word = CrcCalculator_crc32(calc.crc),
                            !.static = CrcCalculator_static_crc32(calc.bytes)]
    /\ UNCHANGED <<input, origin, rd, result, ps, host, enc>>

\* packFilter(pxData, width, height, {filterType, bitDepth}, bpp)
PackFilter ==
    /\ calc.fn = "packFilter"
    /\ calc.phase = "call"
    /\ calc' = [calc EXCEPT !.phase = "filtered",
                            !.filtered = packFilter(calc.bytes, calc.args[2], calc.args[3],
                                                    [hasFilterType |-> TRUE,
                                                     filterType |-> calc.args[1],
                                                     bitDepth |-> calc.args[5]],
                                                    calc.args[4])]
    /\ UNCHANGED <<input, origin, rd, result, ps, host, enc>>

\* processSync(filtered, bitmapInfo) on what packFilter returned
ProcessSync ==
    /\ calc.fn = "packFilter"
    /\ calc.phase = "filtered"
    /\ calc' = [calc EXCEPT !.phase = "done",
                            !.unfiltered = processSync(calc.filtered,
                                                       [width |-> calc.args[2],
                                                        height |-> calc.args[3],
                                                        bpp |-> calc.args[4],
                                                        depth |-> calc.args[5],
                                                        interlace |-> FALSE])]
    /\ UNCHANGED <<input, origin, rd, result, ps, host, enc>>

\* processSync(inBuffer, bitmapInfo) on the scanlines of an interlaced image
ProcessInterlaced ==
    /\ calc.fn = "processSync"
    /\ calc.phase = "call"
    /\ calc' = [calc EXCEPT !.phase = "done",
                            !.unfiltered = processSync(calc.bytes,
                                                       [width |-> calc.args[2],
                                                        height |-> calc.args[3],
                                                        bpp |-> calc.args[4],
                                                        depth |-> calc.args[5],
                                                        interlace |-> TRUE])]
    /\ UNCHANGED <<input, origin, rd, result, ps, host, enc>>

\* PNG.bitblt(src, dst, srcX, srcY, width, height, deltaX, deltaY)
Bitblt ==
    /\ calc.fn = "bitblt"
    /\ calc.phase = "call"
    /\ LET returned(r) == calc' = [calc EXCEPT !.phase = "done", !.thrown = r.thrown,
                                               !.dst.data = r.out]
       IN  returned(PNG_bitblt(calc.src, calc.dst, calc.args[1], calc.args[2], calc.args[3],
                               calc.args[4], calc.args[5], calc.args[6]))
    /\ UNCHANGED <<input, origin, rd, result, ps, host, enc>>

\* inflateSync(buffer, {chunkSize, maxLength})
InflateSyncCall ==
    /\ calc.fn = "inflateSync"
    /\ calc.phase = "call"
    /\ LET returned(r) == calc' = [calc EXCEPT !.phase = "done", !.thrown = r.thrown,
                                               !.inflated = r.out]
       IN  returned(inflateSync(calc.bytes, calc.args[1], calc.args[2], calc.args[3]))
    /\ UNCHANGED <<input, origin, rd, result, ps, host, enc>>

\* a variant in which the decoders keep what is written in one list of buffers
PairWrite_shared(i, n, drain) ==
    /\ host.phase = "pair"
    /\ ~host.pair[i].ended
    /\ n \in PairSizes(i)
    /\ LET settle(c) == IF drain THEN EventLoop(c) ELSE c
           write(bytes) ==
                /\ host.pair[i].pos + n <= Len(bytes)
                /\ ps' = [j \in {"a", "b"} |->
                            IF j = i
                            THEN settle(ChunkStream_write(
                                    ps[j], Slice(bytes, host.pair[i].pos, host.pair[i].pos + n)))
                            ELSE ChunkStream_write(
                                    ps[j], Slice(bytes, host.pair[i].pos, host.pair[i].pos + n))]
       IN  write(PairInput(input, i))
    /\ host' = [host EXCEPT !.pair[i].pos = @ + n,
                            !.pair[i].calls = Append(@, [op |-> "write", n |-> n,
                                                         drain |-> drain])]
    /\ UNCHANGED <<input, origin, rd, result, enc, calc>>

\* the host writes the next n bytes of its stream to decoder i, and then either
\* lets the event loop run or goes on in the same tick
PairWrite(i, n, drain) ==
    /\ host.phase = "pair"
    /\ ~host.pair[i].ended
    /\ n \in PairSizes(i)
    /\ LET settle(c) == IF drain THEN EventLoop(c) ELSE c
           write(bytes) ==
                /\ host.pair[i].pos + n <= Len(bytes)
                /\ ps' = [ps EXCEPT ![i] = settle(ChunkStream_write(
                                ps[i], Slice(bytes, host.pair[i].pos, host.pair[i].pos + n)))]
       IN  write(PairInput(input, i))
    /\ host' = [host EXCEPT !.pair[i].pos = @ + n,
                            !.pair[i].calls = Append(@, [op |-> "write", n |-> n,
                                                         drain |-> drain])]
    /\ UNCHANGED <<input, origin, rd, result, enc, calc>>

\* the host ends decoder i: end(rest) while its stream is left to write, else end()
PairEnd(i) ==
    /\ host.phase = "pair"
    /\ ~host.pair[i].ended
    /\ LET end(bytes) ==
                /\ ps' = [ps EXCEPT ![i] = EventLoop(ChunkStream_end(
                                ps[i], host.pair[i].pos < Len(bytes),
                                SliceFrom(bytes, host.pair[i].pos)))]
                /\ host' = [host EXCEPT !.pair[i].pos = Len(bytes),
                                        !.pair[i].ended = TRUE,
                                        !.pair[i].calls = Append(@, [op |-> "end", n |-> 0,
                                                                     drain |-> TRUE])]
       IN  end(PairInput(input, i))
    /\ UNCHANGED <<input, origin, rd, result, enc, calc>>

NextPair ==
    \/ \E n \in PairSizes("a"), drain \in BOOLEAN : PairWrite("a", n, drain)
    \/ \E n \in PairSizes("b") : PairWrite("b", n, TRUE)
    \/ \E i \in {"a", "b"} : PairEnd(i)
    \/ Pack
    \/ DeflateData
    \/ DeflateEnd

NextPure ==
    \/ GetImagePasses
    \/ InterlaceIterate
    \/ PaethPredictor
    \/ CrcWrite
    \/ CrcRead
    \/ PackFilter
    \/ ProcessSync
    \/ ProcessInterlaced
    \/ Bitblt
    \/ InflateSyncCall

NextEncode ==
    \/ PackSync
    \/ Pack
    \/ DeflateData
    \/ DeflateEnd

Spec == Init /\ [][Next]_vars

SpecStream == InitStream /\ [][NextStream]_vars

SpecChunk == InitChunk /\ [][NextStream]_vars

SpecEncode == InitEncode /\ [][NextEncode]_vars

SpecPure == InitPure /\ [][NextPure]_vars

SpecPair == InitPair /\ [][NextPair]_vars

----------------------------------------------------------------------------
(* Properties *)

Has(events, ev) == \E i \in DOMAIN events : events[i].ev = ev

EventsNamed(events, ev) == SelectSeq(events, LAMBDA e : e.ev = ev)

\* the calls of the Parser other than the compressed data it hands on
SemanticEvents(p) == SelectSeq(p.events, LAMBDA e : e.ev # "inflateData")

\* the compressed bytes the Parser handed to inflate, concatenated
InflateBytes(p) ==
    Concat([i \in 1..Len(EventsNamed(p.events, "inflateData")) |->
                EventsNamed(p.events, "inflateData")[i].val])

\* the streaming decoder p has nothing left to do on a later tick
Idle(p) == p.ticks = 0 /\ p.inflatePending = <<>>

\* the input stops short of its IEND chunk
Truncated(o) == o.sig = "ok" /\ (o.keep >= 0 \/ o.layout = "noiend")

\* C1: one-shot decode of the one-shot encoding of an RGBA raster (colour type
\* 6, depth 8, filterType 0 or -1) returns the raster's width and height and a
\* buffer byte-identical to the raster's.
RoundTrip ==
    (origin.kind = "raster" /\ rd.phase = "done") =>
        /\ result.status = "ok"
        /\ result.width = origin.w
        /\ result.height = origin.h
        /\ result.data = RasterData(origin)

RoundTripReached ==
    /\ origin.kind = "raster"
    /\ rd.phase = "done"
    /\ origin.filterType = -1
    /\ origin.w = MaxWidth
    /\ origin.h = MaxHeight
    /\ origin.seed = 1
    /\ result.status = "ok"
    /\ Len(result.data) = 4 * MaxWidth * MaxHeight

\* C2: once the host has ended the streaming decoder and the event loop has
\* run dry, the decoder has emitted a raster ('parsed') or an error.
StreamSettles ==
    (host.ended /\ Idle(ps.a)) =>
        Has(ps.a.emitted, "parsed") \/ Has(ps.a.emitted, "error")

SameOutcome ==
    (rd.phase = "done" /\ host.phase = "pieces") =>
        \/ /\ result.status = "error"
           /\ Has(ps.b.emitted, "error")
           /\ ~Has(ps.b.emitted, "parsed")
        \/ /\ result.status = "ok"
           /\ ~Has(ps.b.emitted, "error")
           /\ \E i \in DOMAIN ps.b.emitted :
                /\ ps.b.emitted[i].ev = "parsed"
                /\ ps.b.emitted[i].val = result.data
           /\ \E i \in DOMAIN ps.b.emitted :
                /\ ps.b.emitted[i].ev = "metadata"
                /\ ps.b.emitted[i].val[1] = result.width
                /\ ps.b.emitted[i].val[2] = result.height

HeadersOrdered ==
    \A i, j \in DOMAIN rd.ctx.events :
        /\ (rd.ctx.events[j].ev = "metadata" /\ i < j) => rd.ctx.events[i].ev = "metadata"
        /\ (rd.ctx.events[i].ev = "headersFinished" /\ i < j) =>
                rd.ctx.events[j].ev \notin {"palette", "gamma", "transColor"}

\* C7: the buffer of every successful decode has exactly 4 * width * height
\* bytes.
BufferSize ==
    (origin.kind = "stream" /\ rd.phase = "done" /\ result.status = "ok") =>
        Len(result.data) = 4 * result.width * result.height

\* C8: an input of eight or more bytes whose first eight are not the PNG
\* signature is rejected with the invalid-signature error, and no metadata is
\* produced.
SignatureRejected ==
    (origin.sig # "ok" /\ Len(input) >= 8 /\ rd.phase = "done") =>
        /\ result.status = "error"
        /\ result.error = "Invalid file signature"
        /\ ~Has(rd.ctx.events, "metadata")

\* C9: an input that stops while the parser still waits for bytes yields an
\* error and no raster, in one-shot decode and in the streaming decoder after
\* end().
TruncatedRejected ==
    (Truncated(origin) /\ rd.phase = "done" /\ host.ended /\ Idle(ps.a)) =>
        /\ result.status = "error"
        /\ Has(ps.a.emitted, "error")
        /\ ~Has(ps.a.emitted, "parsed")

\* C10: with checkCRC on, a chunk whose stored CRC is wrong causes a CRC
\* error; with checkCRC off, no CRC error is raised.
CrcChecked ==
    (origin.kind = "stream" /\ origin.bad # 0 /\ rd.phase = "done") =>
        (origin.checkCRC <=>
            \E i \in DOMAIN rd.ctx.events :
                /\ rd.ctx.events[i].ev = "error"
                /\ rd.ctx.events[i].msg = "Crc error")

\* C11: the decoder rejects with an error, hands nothing to inflate and returns
\* no raster when the first chunk is not IHDR and, for a palette image, when
\* tRNS or IDAT comes before any PLTE.
ChunkOrderRejected ==
    (origin.layout \in OrderLayouts /\ rd.phase = "done") =>
        /\ result.status = "error"
        /\ result.data = <<>>
        /\ Has(rd.ctx.events, "error") \/ rd.ctx.thrown = "Expected palette not found"
        /\ ~Has(rd.ctx.events, "inflateData")

ChunkOrderRejectedReached ==
    /\ origin.layout = "trnsfirst"
    /\ rd.phase = "done"
    /\ result.status = "error"
    /\ \E i \in DOMAIN rd.ctx.events :
            rd.ctx.events[i].msg = "Transparency chunk must be after palette"

\* the bytes per pixel the format gives each colour type
BppOf(ct) ==
    CASE ct = 0 -> 1
      [] ct = 2 -> 3
      [] ct = 3 -> 1
      [] ct = 4 -> 2
      [] ct = 6 -> 4

\* C12: an IHDR with an unknown depth, colour type, compression method, filter
\* method or interlace method is rejected and no metadata is reported; any
\* other IHDR reports metadata once, with bpp from the table and the palette,
\* colour and alpha flags equal to bits 1, 2 and 4 of the colour type.
HeaderValidated ==
    (origin.kind = "header" /\ rd.phase = "done") =>
        IF InputHeaderKnown(origin)
        THEN /\ Len(EventsNamed(rd.ctx.events, "metadata")) = 1
             /\ EventsNamed(rd.ctx.events, "metadata")[1].val =
                    <<origin.w, origin.h, origin.depth, origin.ct, origin.ilace,
                      BppOf(origin.ct), origin.ct % 2, (origin.ct \div 2) % 2,
                      (origin.ct \div 4) % 2>>
        ELSE /\ result.status = "error"
             /\ Has(rd.ctx.events, "error")
             /\ ~Has(rd.ctx.events, "metadata")

HeaderValidatedReached ==
    /\ origin.kind = "header"
    /\ rd.phase = "done"
    /\ origin.ct = 4
    /\ origin.depth = 16
    /\ origin.ilace = 1
    /\ Has(rd.ctx.events, "metadata")

\* C13: an IHDR chunk whose length is not 13 is rejected with an error, and no
\* metadata is reported for it.
HeaderLengthChecked ==
    (origin.kind = "length" /\ origin.ihdrLen # 13 /\ rd.phase = "done") =>
        /\ result.status = "error"
        /\ ~Has(rd.ctx.events, "metadata")

EventNames(events) == [i \in 1..Len(events) |-> events[i].ev]

ErrorMessages(events) ==
    [i \in 1..Len(EventsNamed(events, "error")) |-> EventsNamed(events, "error")[i].msg]

AsciiLetter(b) == b \in 65..90 \/ b \in 97..122

\* C14: for a chunk after IHDR of a type the parser has no handler for: a type
\* byte that is not an ASCII letter gives the invalid-chunk-type error; else a
\* first type byte with bit 5 clear gives the unsupported-critical-chunk
\* error; else the body and CRC are skipped, no event is reported for the
\* chunk and parsing goes on with the next chunk header.
UnknownChunkHandled ==
    (origin.kind = "unknown" /\ rd.phase = "done") =>
        IF \E i \in 1..4 : ~AsciiLetter(origin.utype[i])
        THEN /\ ErrorMessages(rd.ctx.events) = <<"Invalid chunk type">>
             /\ EventNames(rd.ctx.events) = <<"metadata", "error">>
             /\ result.status = "error"
        ELSE IF (origin.utype[1] \div 32) % 2 = 0
        THEN /\ ErrorMessages(rd.ctx.events) = <<"Unsupported critical chunk type">>
             /\ EventNames(rd.ctx.events) = <<"metadata", "error">>
             /\ result.status = "error"
        ELSE /\ EventNames(rd.ctx.events) = <<"metadata", "headersFinished", "inflateData">>
             /\ InflateBytes(rd.ctx) = Deflate(InputScanlines(origin))
             /\ rd.ctx.hasIEND
             /\ result.status = "ok"
             /\ result.width = origin.w
             /\ result.height = origin.h

UnknownChunkHandledReached ==
    /\ origin.kind = "unknown"
    /\ rd.phase = "done"
    /\ origin.utype = <<97, 65, 97, 90>>
    /\ origin.ulen = 9
    /\ result.status = "ok"

\* the four output bytes of pixel k (from 0, in scan order) of a decoded raster
OutputPixel(data, k) == Slice(data, 4 * k, 4 * k + 4)

\* whether the pixel (x, y) of the input has the colour its tRNS chunk names
InputTransparent(o, x, y) ==
    \A c \in 0..(IF o.ct = 0 THEN 0 ELSE 2) : InputSample(o, x, y, c) = InputSample(o, 0, 0, c)

\* C15: after the decode of a grayscale or truecolour image with a tRNS chunk,
\* at any bit depth, every pixel whose input samples equal the tRNS value has
\* all four output bytes 0.
TransparentZeroed ==
    (origin.kind = "trans" /\ rd.phase = "done") =>
        /\ result.status = "ok"
        /\ Len(result.data) = 4 * origin.w * origin.h
        /\ \A x \in 0..(origin.w - 1), y \in 0..(origin.h - 1) :
                InputTransparent(origin, x, y) =>
                    OutputPixel(result.data, y * origin.w + x) = <<0, 0, 0, 0>>

\* the same for the depths up to 8
TransparentZeroedUpTo8 == origin.depth <= 8 => TransparentZeroed

\* entry i (from 0) of the palette the inputs carry: PLTE has four entries,
\* tRNS gives the first the alpha 0 and the second the alpha 128
InputPaletteEntry(i) ==
    <<10 + 30 * i, 20 + 30 * i, 30 + 30 * i,
      IF i = 0 THEN 0 ELSE IF i = 1 THEN 128 ELSE 255>>

\* C16: for a palette image at any bit depth each decoded pixel is the PLTE
\* entry its index selects, with the alpha tRNS gives that entry or else 255,
\* not rescaled; an index the palette does not have is a decode error.
PaletteExpanded ==
    (origin.kind = "index" /\ rd.phase = "done") =>
        IF \E x \in 0..(origin.w - 1), y \in 0..(origin.h - 1) : InputIndex(origin, x, y) >= 4
        THEN result.status = "error"
        ELSE /\ result.status = "ok"
             /\ \A x \in 0..(origin.w - 1), y \in 0..(origin.h - 1) :
                    OutputPixel(result.data, y * origin.w + x)
                        = InputPaletteEntry(InputIndex(origin, x, y))

\* the same for the depths up to 8
PaletteExpandedUpTo8 == origin.depth <= 8 => PaletteExpanded

\* round(sample * 255 / (2^d - 1)); no sample falls half way between two bytes
Rescaled(sample, d) == (2 * sample * 255 + ((2 ^ d) - 1)) \div (2 * ((2 ^ d) - 1))

\* the pixel (x, y) of an input without palette and tRNS, as RGBA bytes
InputPixel(o, x, y) ==
    LET v(c) == Rescaled(InputSample(o, x, y, c), o.depth)
    IN  CASE o.ct = 0 -> <<v(0), v(0), v(0), 255>>
          [] o.ct = 2 -> <<v(0), v(1), v(2), 255>>
          [] o.ct = 4 -> <<v(0), v(0), v(0), v(1)>>
          [] o.ct = 6 -> <<v(0), v(1), v(2), v(3)>>

\* C17: for an image without palette and without tRNS each decoded pixel is
\* (g,g,g,255), (r,g,b,255), (g,g,g,a) or (r,g,b,a) by colour type, every
\* channel being the sample of depth 1, 2, 4, 8 or 16 read most significant
\* bit first (16-bit samples big-endian) and rescaled to
\* round(sample * 255 / (2^d - 1)); the bits left in the last byte of a
\* scanline belong to no pixel.
PixelsRescaled ==
    (origin.kind = "pixels" /\ rd.phase = "done") =>
        /\ result.status = "ok"
        /\ \A x \in 0..(origin.w - 1), y \in 0..(origin.h - 1) :
                OutputPixel(result.data, y * origin.w + x) = InputPixel(origin, x, y)

\* the same for the depths up to 8
PixelsRescaledUpTo8 == origin.depth <= 8 => PixelsRescaled

\* C18: the streaming decoder emits 'metadata' exactly once, at the first IDAT
\* chunk, and with alpha = true when a tRNS chunk comes before that chunk.
\* Stated for a host that has written a whole well-formed image and ended the
\* stream, once the event loop has run dry.
MetadataEmittedOnce ==
    (/\ host.ended
     /\ Idle(ps.a)
     /\ origin.sig = "ok"
     /\ origin.keep < 0
     /\ origin.bad = 0
     /\ origin.layout \in {"plain", "split", "lategama", "trns"}) =>
        /\ Len(EventsNamed(ps.a.emitted, "metadata")) = 1
        /\ origin.layout = "trns" => EventsNamed(ps.a.emitted, "metadata")[1].val[9] = 1

RECURSIVE ChunksFrom(_, _)
\* the chunks that lie in bytes from pos on: for each its type, whether all of
\* it is there, whether its last four bytes are the CRC of its type and body,
\* and its bytes
ChunksFrom(bytes, pos) ==
    IF pos >= Len(bytes) THEN <<>>
    ELSE IF pos + 12 > Len(bytes) \/ pos + 12 + ReadUInt32BE(bytes, pos) > Len(bytes)
    THEN <<[type |-> <<>>, whole |-> FALSE, crcOk |-> FALSE, raw |-> SliceFrom(bytes, pos)]>>
    ELSE LET next == pos + 12 + ReadUInt32BE(bytes, pos)
         IN  <<[type  |-> Slice(bytes, pos + 4, pos + 8),
                whole |-> TRUE,
                crcOk |-> Slice(bytes, next - 4, next)
                            = WordBytes(CrcCalculator_static_crc32(Slice(bytes, pos + 4, next - 4))),
                raw   |-> Slice(bytes, pos, next)]>>
                \o ChunksFrom(bytes, next)

\* bytes are a PNG stream as the encoder is to write it for the raster of o:
\* signature, IHDR, gAMA if the gamma is not zero, IDAT chunks (just one if
\* oneIDAT), IEND; the IEND chunk and the gAMA chunk of the gamma 5/11 are
\* compared with their bytes as any PNG writer produces them
EncodedStream(bytes, o, oneIDAT) ==
    LET head == IF o.gamma[1] # 0 THEN <<TYPE_IHDR, TYPE_gAMA>> ELSE <<TYPE_IHDR>>
        ordered(cs) ==
            /\ \A i \in DOMAIN cs : cs[i].whole /\ cs[i].crcOk
            /\ Len(cs) >= Len(head) + 2
            /\ \A i \in DOMAIN head : cs[i].type = head[i]
            /\ \A i \in (Len(head) + 1)..(Len(cs) - 1) : cs[i].type = TYPE_IDAT
            /\ oneIDAT => Len(cs) = Len(head) + 2
            /\ cs[Len(cs)].raw = <<0, 0, 0, 0, 73, 69, 78, 68, 174, 66, 96, 130>>
            /\ o.gamma = <<5, 11>> =>
                    cs[2].raw = <<0, 0, 0, 4, 103, 65, 77, 65, 0, 0, 177, 142, 124, 251, 81, 147>>
    IN  /\ Slice(bytes, 0, 8) = <<137, 80, 78, 71, 13, 10, 26, 10>>
        /\ ordered(ChunksFrom(bytes, 8))

\* the bytes of the 'data' events among events, in their order
DataBytes(events) ==
    Concat([i \in 1..Len(EventsNamed(events, "data")) |-> EventsNamed(events, "data")[i].val])

\* C19: every output of the encoder is the signature, one IHDR chunk, one gAMA
\* chunk if and only if the raster's gamma is not zero, one or more IDAT
\* chunks and one IEND chunk, in this order, each chunk being its length, its
\* type, its body and the CRC-32 of type and body.  One-shot encode writes
\* just one IDAT chunk; streaming encode emits IEND after the last IDAT chunk
\* and 'end' after IEND.
EncoderOutputOrdered ==
    /\ (origin.kind = "encode" /\ rd.phase = "idle") => EncodedStream(input, origin, TRUE)
    /\ enc.phase = "done" =>
            /\ EncodedStream(DataBytes(enc.emitted), origin, FALSE)
            /\ Len(EventsNamed(enc.emitted, "end")) = 1
            /\ enc.emitted[Len(enc.emitted)].ev = "end"
            /\ enc.emitted[Len(enc.emitted) - 1].val = Packer_packIEND
    /\ Has(enc.emitted, "end") => enc.phase = "done" /\ enc.deflate = <<>>
    /\ \A i \in DOMAIN enc.emitted :
            (enc.emitted[i].ev = "data" /\ enc.emitted[i].val = Packer_packIEND) =>
                enc.deflate = <<>>

EncoderOutputOrderedReached ==
    /\ origin.kind = "encode"
    /\ rd.phase = "idle"
    /\ enc.phase = "done"
    /\ origin.gamma = <<5, 11>>
    /\ Len(EventsNamed(enc.emitted, "data")) >= 6

\* the bit depth, colour type, compression, filter and interlace bytes of the
\* IHDR chunk that follows the signature in bytes
HeaderFields(bytes) == Slice(bytes, 24, 29)

\* C20: for every set of options the encoder accepts, the IHDR chunk of its
\* output declares bit depth 8, compression 0, filter 0, interlace 0 and the
\* colour type of the options; the depth is never 16.
EncoderDepth8 ==
    /\ (origin.kind = "encode" /\ rd.phase = "idle") =>
            HeaderFields(input) = <<8, origin.colorType, 0, 0, 0>>
    /\ (origin.kind = "encode" /\ Len(enc.emitted) >= 2) =>
            HeaderFields(DataBytes(enc.emitted)) = <<8, origin.colorType, 0, 0, 0>>

\* the same for the encodes whose option bitDepth is 8
EncoderDepth8Asked == origin.bitDepth = 8 => EncoderDepth8

\* C21: an encode asked for a colorType outside {0, 2, 4, 6}, an
\* inputColorType outside {0, 2, 4, 6} or a bitDepth outside {8, 16} fails
\* with an unsupported-option error before any byte of output is produced.
UnsupportedRejected ==
    (/\ origin.kind = "encode"
     /\ \/ origin.colorType \notin {0, 2, 4, 6}
        \/ origin.inputColorType \notin {0, 2, 4, 6}
        \/ origin.bitDepth \notin {8, 16}) =>
        /\ input = <<>>
        /\ rd.phase # "raster" =>
                /\ rd.phase = "done"
                /\ result.status = "error"
                /\ result.error \in {"Option color type is not supported at present",
                                     "Option input color type is not supported at present",
                                     "Option bit depth is not supported at present"}
        /\ enc.phase = "failed"
        /\ enc.emitted = <<>>

\* the same without the bitDepth 0
UnsupportedRejectedButZero == origin.bitDepth # 0 => UnsupportedRejected

\* the one of a, b, c that is nearest to a + b - c, a before b before c
NearestOf(a, b, c) ==
    LET dist(v) == IF a + b - c >= v THEN (a + b - c) - v ELSE v - (a + b - c)
    IN  IF dist(a) <= dist(b) /\ dist(a) <= dist(c) THEN a
        ELSE IF dist(b) <= dist(c) THEN b
        ELSE c

\* byte x of row y of a raster of byteWidth bytes a row, filtered with filter
\* f as the format defines it
FilteredByte(f, data, byteWidth, bpp, y, x) ==
    LET px     == data[y * byteWidth + x + 1]
        left   == IF x >= bpp THEN data[y * byteWidth + x - bpp + 1] ELSE 0
        up     == IF y > 0 THEN data[(y - 1) * byteWidth + x + 1] ELSE 0
        upleft == IF y > 0 /\ x >= bpp THEN data[(y - 1) * byteWidth + x - bpp + 1] ELSE 0
        pred   == CASE f = 0 -> 0
                    [] f = 1 -> left
                    [] f = 2 -> up
                    [] f = 3 -> (left + up) \div 2
                    [] f = 4 -> NearestOf(left, up, upleft)
    IN  (px - pred) % 256

\* the filtered scanlines in the one-shot encoding of an RGBA raster without
\* gamma: the body of its IDAT chunk behind the header of the deflated stream
EncodedScanlines(bytes) == Slice(bytes, 42, Len(bytes) - 16)

\* the filtered scanlines of an encode are (byteWidth + 1) * height bytes
FilteredSize ==
    (origin.kind = "raster" /\ rd.phase # "raster") =>
        Len(EncodedScanlines(input)) = (4 * origin.w + 1) * origin.h

\* C22: when encode is called with a fixed filterType f in 0..4, every
\* scanline of the filtered stream that is deflated begins with the byte f
\* and goes on with the row filtered with filter f, and the stream has
\* (byteWidth + 1) * height bytes.
FixedFilterUsed ==
    (origin.kind = "raster" /\ origin.filterType \in 0..4 /\ rd.phase # "raster") =>
        /\ FilteredSize
        /\ \A y \in 0..(origin.h - 1) :
                /\ EncodedScanlines(input)[y * (4 * origin.w + 1) + 1] = origin.filterType
                /\ \A x \in 0..(4 * origin.w - 1) :
                        EncodedScanlines(input)[y * (4 * origin.w + 1) + 2 + x]
                            = FilteredByte(origin.filterType, RasterData(origin),
                                           4 * origin.w, 4, y, x)

\* floor(side / 8) * |offsets| plus the number of offsets below side mod 8
PassSide(offsets, side) ==
    (side \div 8) * Len(offsets)
        + Cardinality({j \in DOMAIN offsets : offsets[j] < side % 8})

\* C23: for an image of W x H pixels the passes of getImagePasses have the
\* width floor(W/8) * |x offsets| plus the number of x offsets below W mod 8
\* and the height likewise, a pass with a dimension 0 is left out, and the
\* iterator maps the pixels of the listed passes to the positions
\* 4 * (x + y * W), 0 <= x < W, 0 <= y < H, each exactly once.
PassesPartition ==
    (calc.fn = "getImagePasses" /\ calc.phase # "call") =>
        LET W == calc.args[1]
            H == calc.args[2]
            listed(p) == {i \in DOMAIN calc.passes : calc.passes[i].index = p}
        IN  /\ \A p \in 0..6 :
                    IF PassSide(imagePasses[p + 1].x, W) > 0 /\ PassSide(imagePasses[p + 1].y, H) > 0
                    THEN /\ Cardinality(listed(p)) = 1
                         /\ \A i \in listed(p) :
                                /\ calc.passes[i].width = PassSide(imagePasses[p + 1].x, W)
                                /\ calc.passes[i].height = PassSide(imagePasses[p + 1].y, H)
                                /\ calc.passes[i].width
                                     = Cardinality({x \in 0..(W - 1) :
                                            x >= Adam7[p + 1][1]
                                                /\ (x - Adam7[p + 1][1]) % Adam7[p + 1][2] = 0})
                                /\ calc.passes[i].height
                                     = Cardinality({y \in 0..(H - 1) :
                                            y >= Adam7[p + 1][3]
                                                /\ (y - Adam7[p + 1][3]) % Adam7[p + 1][4] = 0})
                    ELSE listed(p) = {}
            /\ \A i \in DOMAIN calc.passes : calc.passes[i].index \in 0..6
            /\ calc.phase = "done" =>
                    /\ Len(calc.hits) = W * H
                    /\ {calc.hits[i] : i \in DOMAIN calc.hits}
                            = {4 * (x + y * W) : x \in 0..(W - 1), y \in 0..(H - 1)}

PassesPartitionReached ==
    /\ calc.fn = "getImagePasses"
    /\ calc.phase = "done"
    /\ calc.args = <<11, 5>>
    /\ Len(calc.passes) = 7
    /\ Len(calc.hits) = 55

\* C24: for all bytes a, b, c the predictor returns one of a, b, c, namely
\* the one nearest to a + b - c, a before b before c when two are as near,
\* and paethPredictor(a, a, a) = a.
PaethNearest ==
    (calc.fn = "paethPredictor" /\ calc.phase = "done") =>
        /\ calc.out \in {calc.args[1], calc.args[2], calc.args[3]}
        /\ calc.out = NearestOf(calc.args[1], calc.args[2], calc.args[3])
        /\ (calc.args[1] = calc.args[2] /\ calc.args[2] = calc.args[3]) =>
                calc.out = calc.args[1]

PaethNearestReached ==
    /\ calc.fn = "paethPredictor"
    /\ calc.phase = "done"
    /\ calc.args = <<255, 0, 128>>
    /\ calc.out = 128

\* the CRC-32 of the buffers in CrcInputs as the standard defines it
\* (polynomial 0xEDB88320 reflected, start and final XOR all ones), as bytes
CrcStandard(bytes) ==
    CASE bytes = <<>> -> <<0, 0, 0, 0>>
      [] bytes = <<0>> -> <<210, 2, 239, 141>>
      [] bytes = <<97>> -> <<232, 183, 190, 67>>
      [] bytes = <<49, 50, 51, 52, 53, 54, 55, 56, 57>> -> <<203, 244, 57, 38>>
      [] bytes = <<73, 69, 78, 68>> -> <<174, 66, 96, 130>>
      [] bytes = <<255, 255, 255, 255>> -> <<255, 255, 255, 255>>
      [] bytes = <<103, 65, 77, 65, 0, 0, 177, 142>> -> <<124, 251, 81, 147>>
      [] bytes = <<0, 0, 0, 0, 0>> -> <<198, 34, 247, 29>>

\* C25: however a buffer is cut into pieces, a fresh CrcCalculator written
\* the pieces in order reports the value the one-shot CrcCalculator.crc32
\* reports for the whole buffer, and that value is the standard CRC-32.
CrcIncremental ==
    (calc.fn = "crc" /\ calc.phase = "done") =>
        /\ calc.word = calc.static
        /\ WordBytes(calc.static) = CrcStandard(calc.bytes)

CrcIncrementalReached ==
    /\ calc.fn = "crc"
    /\ calc.phase = "done"
    /\ calc.bytes = <<49, 50, 51, 52, 53, 54, 55, 56, 57>>
    /\ calc.cuts = {1, 4, 8}

\* C26: for an image that is not interlaced, of W x H pixels, the Filter makes
\* H demands of ceil(W * bpp * depth / 8) + 1 bytes each on the inflated data,
\* takes exactly that many bytes and calls complete() only after the last of
\* them; when the IDAT chunks inflate to fewer bytes the decode ends with an
\* error.
LinesConsumed ==
    (/\ rd.phase = "done"
     /\ rd.ctx.thrown = "none"
     /\ rd.ctx.err = "none"
     /\ rd.ctx.hasMeta
     /\ ~rd.ctx.metaData.interlace
     /\ rd.ctx.metaData.width >= 1
     /\ rd.ctx.metaData.height >= 1
     /\ ZlibInflate(Concat(rd.ctx.inflateDataList)).thrown = "none") =>
        LET md       == rd.ctx.metaData
            line     == ((md.width * md.bpp * md.depth + 7) \div 8) + 1
            stream   == ZlibInflate(Concat(rd.ctx.inflateDataList)).out
            inflated == InflateSync(Concat(rd.ctx.inflateDataList), ImageSize(md)).out
            after(run) ==
                IF Len(stream) >= line * md.height
                THEN /\ run.reads = [i \in 1..md.height |-> line]
                     /\ Len(inflated) - Len(run.rest) = line * md.height
                     /\ run.rest = <<>>
                     /\ run.complete
                ELSE /\ ~run.complete
                     /\ Len(run.reads) <= md.height
                     /\ \A i \in DOMAIN run.reads : run.reads[i] = line
                     /\ result.status = "error"
        IN  IF inflated = <<>> THEN result.status = "error"
            ELSE after(processSync(inflated, ImageInfo(rd.ctx)))

LinesConsumedReached ==
    /\ origin.kind = "short"
    /\ origin.short = 0
    /\ origin.depth = 1
    /\ origin.w = 3
    /\ origin.h = 3
    /\ rd.phase = "done"
    /\ result.status = "ok"

LinesMissingReached ==
    /\ origin.kind = "short"
    /\ origin.short = 1
    /\ origin.h = 3
    /\ rd.phase = "done"
    /\ result.status = "error"
    /\ result.error = "There are some read requests waiting on finished stream"

HeaderOf(md) == <<md.width, md.height, md.depth, md.colorType, md.bpp, md.interlace>>

\* C28: from the first IHDR on, no step of a decode changes the width, height,
\* depth, colorType, bpp or interlace of its metadata.
HeaderFrozen ==
    [][(rd.phase = "reading" /\ rd.ctx.hasMeta) =>
            HeaderOf(rd'.ctx.metaData) = HeaderOf(rd.ctx.metaData)]_vars

\* a decode that returned a raster has the dimensions of the first IHDR
HeaderFirstReturned ==
    (origin.kind = "again" /\ result.status = "ok") =>
        /\ result.width = origin.w
        /\ result.height = origin.h

\* C29: the palette of a parser never holds more than 256 entries, and a
\* decode does not succeed on a stream whose PLTE chunk has a length that is
\* not a multiple of 3 or is above 768, or that carries a second PLTE chunk
\* with entries to add.
PaletteBounded ==
    /\ Len(rd.ctx.palette) <= 256
    /\ (/\ origin.kind = "palette"
        /\ rd.phase = "done"
        /\ \/ origin.plen % 3 # 0
           \/ origin.plen > 768
           \/ origin.layout = "twoplte") =>
            /\ result.status = "error"
            /\ Len(rd.ctx.palette) <= origin.plen \div 3

\* a palette of 256 entries from one PLTE chunk of 768 bytes
PaletteFullReached ==
    /\ origin.kind = "palette"
    /\ origin.layout = "pal"
    /\ origin.plen = 768
    /\ rd.phase = "done"
    /\ result.status = "ok"
    /\ Len(rd.ctx.palette) = 256

\* C30: a decode that returns a raster returns one of width and height of at
\* least 1; a stream whose IHDR declares width 0 or height 0 is not decoded.
RasterHasPixels ==
    /\ result.status = "ok" => (result.width >= 1 /\ result.height >= 1)
    /\ (origin.kind = "zero" /\ rd.phase = "done") => result.status = "error"

\* the bodies of the IDAT chunks of a stream, in stream order, concatenated
IdatBodies(bytes) ==
    LET cs == SelectSeq(ChunksFrom(bytes, 8), LAMBDA c : c.whole /\ c.type = TYPE_IDAT)
    IN  Concat([i \in 1..Len(cs) |-> Slice(cs[i].raw, 8, Len(cs[i].raw) - 4)])

\* the parser p called headersFinished once, before it handed on any data, and
\* handed on the IDAT bodies of the input and nothing else
IdatHanded(p) ==
    /\ InflateBytes(p) = IdatBodies(input)
    /\ Len(EventsNamed(p.events, "headersFinished")) = 1
    /\ \A i \in DOMAIN p.events :
            p.events[i].ev = "inflateData" =>
                \E j \in 1..(i - 1) : p.events[j].ev = "headersFinished"

\* C31: for a well-formed stream with one or more IDAT chunks, decoded at once
\* or written to the streaming decoder in any pieces, the bytes handed to
\* inflate are the IDAT bodies in stream order and nothing else, and
\* headersFinished is called exactly once, before the first of them.
IdatConcatenated ==
    (/\ origin.sig = "ok"
     /\ origin.keep < 0
     /\ origin.bad = 0
     /\ origin.layout \in {"plain", "split", "lategama", "trns"}) =>
        /\ rd.phase = "done" => IdatHanded(rd.ctx)
        /\ (host.ended /\ Idle(ps.a)) => IdatHanded(ps.a)

\* the same for the one-shot decode alone
IdatConcatenatedSync ==
    (/\ origin.sig = "ok"
     /\ origin.keep < 0
     /\ origin.bad = 0
     /\ origin.layout \in {"plain", "split", "lategama", "trns"}
     /\ rd.phase = "done") => IdatHanded(rd.ctx)

\* the bytes of the scanlines of a non-interlaced image
InflatedSize(o) == (((o.w * COLORTYPE_TO_BPP_MAP[o.ct] * o.depth + 7) \div 8) + 1) * o.h

\* C32: the streaming decoder of a non-interlaced image never hands the filter
\* more inflated bytes than the scanlines of the image have, and compressed
\* data that fails to inflate before that many bytes have come out ends in an
\* 'error' event once the stream is written and ended.
InflateLimited ==
    \A i \in {"a", "b"} :
        (/\ origin.sig = "ok"
         /\ origin.keep < 0
         /\ origin.bad = 0
         /\ ~origin.interlace) =>
            /\ Len(ps[i].filterIn) <= InflatedSize(origin)
            /\ (/\ origin.zhead # Head(ZLIB_HEADER)
                /\ InflatedSize(origin) > 0
                /\ host.ended
                /\ Idle(ps[i])) => Has(ps[i].emitted, "error")

\* a damaged image has been written to a streaming decoder, the stream ended
InflateFailedReached ==
    /\ origin.kind = "damaged"
    /\ origin.layout = "split"
    /\ host.ended
    /\ Idle(ps.a)
    /\ Len(host.pieces) > 1

RECURSIVE SignedSum(_, _, _, _, _, _)
\* the sum over the bytes 0 .. x - 1 of row y, filtered with filter f, of the
\* absolute value of the byte read as a signed byte
SignedSum(f, data, byteWidth, bpp, y, x) ==
    IF x = 0 THEN 0
    ELSE LET b == FilteredByte(f, data, byteWidth, bpp, y, x - 1)
         IN  (IF b > 127 THEN 256 - b ELSE b) + SignedSum(f, data, byteWidth, bpp, y, x - 1)

\* C33: in an adaptive encode (filterType -1) every scanline is stored with
\* the filter among 0..4 whose filtered bytes, read as signed bytes, have the
\* least sum of absolute values, the lowest-numbered of them on a tie.
AdaptiveMinimal ==
    (origin.kind = "raster" /\ origin.filterType = -1 /\ rd.phase # "raster") =>
        /\ FilteredSize
        /\ \A y \in 0..(origin.h - 1) :
                LET sel == EncodedScanlines(input)[y * (4 * origin.w + 1) + 1]
                    sum(f) == SignedSum(f, RasterData(origin), 4 * origin.w, 4, y, 4 * origin.w)
                IN  /\ sel \in 0..4
                    /\ \A g \in 0..4 : sum(sel) <= sum(g) /\ (sum(g) = sum(sel) => sel <= g)

\* C34: for each filter type 0..4 (and the adaptive choice), widths and
\* heights from 1, 1 to 4 channels, depth 8 and depth 16, and every pixel
\* data, reverse-filtering what forward-filtering produced gives back the
\* original bytes; the filtered stream has (byteWidth + 1) * height bytes.
FilterRoundTrip ==
    (calc.fn = "packFilter" /\ calc.phase = "done") =>
        /\ Len(calc.filtered)
                = (calc.args[2] * calc.args[4] * (calc.args[5] \div 8) + 1) * calc.args[3]
        /\ calc.unfiltered.thrown = "none"
        /\ calc.unfiltered.complete
        /\ calc.unfiltered.out = calc.bytes

\* three lines of three 4-channel pixels of depth 16 went through the Paeth
\* filter and back, and filtering had changed bytes of every line
FilterRoundTripReached ==
    /\ calc.fn = "packFilter"
    /\ calc.phase = "done"
    /\ calc.args = <<4, 3, 3, 4, 16>>
    /\ calc.unfiltered.out = calc.bytes
    /\ \A y \in 0..2 :
            /\ calc.filtered[y * 25 + 1] = 4
            /\ Slice(calc.filtered, y * 25 + 1, y * 25 + 25) # Slice(calc.bytes, y * 24, y * 24 + 24)

RECURSIVE PlainLine(_, _, _, _, _)
\* a scanline as the format defines its reverse filter: raw is the filtered
\* line behind its filter byte f, prev the line before it (zeros for none),
\* dist the distance to the byte on the left, line the bytes found so far
PlainLine(f, raw, prev, dist, line) ==
    IF Len(line) = Len(raw) THEN line
    ELSE LET x      == Len(line) + 1
             left   == IF x > dist THEN line[x - dist] ELSE 0
             up     == prev[x]
             upleft == IF x > dist THEN prev[x - dist] ELSE 0
             pred   == CASE f = 0 -> 0
                         [] f = 1 -> left
                         [] f = 2 -> up
                         [] f = 3 -> (left + up) \div 2
                         [] f = 4 -> NearestOf(left, up, upleft)
         IN  PlainLine(f, raw, prev, dist, Append(line, (raw[x] + pred) % 256))

RECURSIVE PlainPass(_, _, _, _, _)
\* the scanlines of one pass, of bytes bytes each, unfiltered one after the
\* other from the filtered stream, prev being the line before the first
PlainPass(stream, bytes, lines, dist, prev) ==
    IF lines = 0 THEN <<>>
    ELSE LET line == PlainLine(stream[1], Slice(stream, 1, bytes + 1), prev, dist, <<>>)
         IN  line \o PlainPass(SliceFrom(stream, bytes + 1), bytes, lines - 1, dist, line)

RECURSIVE PlainPasses(_, _, _)
\* the passes unfiltered each on its own with a line of zeros before its first
PlainPasses(stream, passes, dist) ==
    IF passes = <<>> THEN <<>>
    ELSE PlainPass(stream, Head(passes).bytes, Head(passes).lines, dist,
                   Zeros(Head(passes).bytes))
            \o PlainPasses(SliceFrom(stream, (Head(passes).bytes + 1) * Head(passes).lines),
                           Tail(passes), dist)

\* C35: reverse-filtering an interlaced image, the first scanline of every
\* Adam7 pass is unfiltered with a line of zeros as the line before it, every
\* later scanline with the line before it in the same pass, and every demand
\* is the byte width of the pass the line belongs to plus 1.
PassesUnfilteredApart ==
    (calc.fn = "processSync" /\ calc.phase = "done") =>
        LET passes == PassLines(calc.args[2], calc.args[3], calc.args[4], calc.args[5])
            dist   == IF calc.args[5] < 8 THEN 1 ELSE calc.args[4] * (calc.args[5] \div 8)
        IN  /\ calc.unfiltered.thrown = "none"
            /\ calc.unfiltered.complete
            /\ calc.unfiltered.reads
                    = Concat([p \in 1..Len(passes) |->
                                [y \in 1..passes[p].lines |-> passes[p].bytes + 1]])
            /\ calc.unfiltered.out = PlainPasses(calc.bytes, passes, dist)

\* an image of 5 x 5 pixels of three 16-bit samples whose scanlines all have
\* the Paeth filter was unfiltered: seven passes, of which three have two or
\* three scanlines
PassesUnfilteredReached ==
    /\ calc.fn = "processSync"
    /\ calc.phase = "done"
    /\ calc.args = <<4, 5, 5, 3, 16>>
    /\ calc.unfiltered.complete
    /\ Len(PassLines(5, 5, 3, 16)) = 7
    /\ Cardinality({p \in 1..7 : PassLines(5, 5, 3, 16)[p].lines > 1}) = 3
    /\ calc.unfiltered.out # calc.bytes

\* round(bg * (1 - a / 255) + s * (a / 255)), kept within 0..255
Blended(s, a, bg) == Min(Max((2 * (bg * (255 - a) + s * a) + 255) \div 510, 0), 255)

\* the samples of pixel k (from 1) of the output of an encode of depth 8 from
\* a raster with alpha to an image without, over the background colour of
\* the options
BlendedPixel(o, k) ==
    LET data  == EncodeData(o)
        n     == IF o.inputColorType = COLORTYPE_ALPHA THEN 2 ELSE 4
        at(j) == data[(k - 1) * n + j]
        a     == at(n)
        bg(c) == IF c < 0 THEN 255 ELSE c
        red   == Blended(at(1), a, bg(o.bgColor.red))
        green == Blended(IF n = 2 THEN at(1) ELSE at(2), a, bg(o.bgColor.green))
        blue  == Blended(IF n = 2 THEN at(1) ELSE at(3), a, bg(o.bgColor.blue))
    IN  IF o.colorType = COLORTYPE_COLOR THEN <<red, green, blue>>
        ELSE <<(2 * (red + green + blue) + 3) \div 6>>

\* an encode of depth 8 from a raster with alpha to an image without has
\* returned
BlendedEncode ==
    /\ origin.kind = "encode"
    /\ origin.bitDepth = 8
    /\ origin.inputHasAlpha
    /\ origin.inputColorType \in {COLORTYPE_ALPHA, COLORTYPE_COLOR_ALPHA}
    /\ origin.colorType \in {COLORTYPE_GRAYSCALE, COLORTYPE_COLOR}
    /\ rd.phase = "idle"

\* C36: when the input has alpha and the output colour type is 0 or 2, every
\* output sample is round(bg * (1 - a / max) + sample * (a / max)) within
\* 0..max, bg being the channel of the background colour of the encode
\* options, or max for a channel the options do not give.
BackgroundBlended ==
    BlendedEncode =>
        LET bpp == COLORTYPE_TO_BPP_MAP[origin.colorType]
        IN  PlainPass(Tail(IdatBodies(input)), origin.w * bpp, origin.h, bpp,
                      Zeros(origin.w * bpp))
                = Concat([k \in 1..(origin.w * origin.h) |-> BlendedPixel(origin, k)])

\* the same for the encodes whose options give no background colour
BackgroundWhite ==
    (\A c \in {"red", "green", "blue"} : origin.bgColor[c] = -1) => BackgroundBlended

\* an encode with the background colour (0, 128, 255) has returned an image
\* of colour type 2
BackgroundGivenReached ==
    /\ BlendedEncode
    /\ origin.colorType = COLORTYPE_COLOR
    /\ origin.bgColor = [red |-> 0, green |-> 128, blue |-> 255]
    /\ origin.w > 1

\* the rectangle of a bitblt call has pixels and lies within both images
BlitInside ==
    /\ calc.args[1] >= 0 /\ calc.args[1] + calc.args[3] <= calc.src.width
    /\ calc.args[2] >= 0 /\ calc.args[2] + calc.args[4] <= calc.src.height
    /\ calc.args[5] >= 0 /\ calc.args[5] + calc.args[3] <= calc.dst.width
    /\ calc.args[6] >= 0 /\ calc.args[6] + calc.args[4] <= calc.dst.height

\* byte c of the pixel (x, y) of an image
PixelByte(image, x, y, c) == image.data[4 * (y * image.width + x) + c]

\* C37: PNG.bitblt either throws and leaves dst as it was, or copies the
\* width x height rectangle at (srcX, srcY) of src to (deltaX, deltaY) of dst
\* and leaves every other pixel of dst as it was; a rectangle with pixels
\* that is not wholly inside its image, a negative coordinate included,
\* always throws.
BitbltExact ==
    (calc.fn = "bitblt" /\ calc.phase = "done") =>
        LET before == BlitImage(calc.dst.width, calc.dst.height, 100)
            filled == calc.args[3] > 0 /\ calc.args[4] > 0
        IN  /\ (filled /\ ~BlitInside) => calc.thrown # "none"
            /\ (calc.thrown # "none" \/ ~filled) => calc.dst = before
            /\ (calc.thrown = "none" /\ filled) =>
                    \A x \in 0..(calc.dst.width - 1), y \in 0..(calc.dst.height - 1),
                       c \in 1..4 :
                        PixelByte(calc.dst, x, y, c)
                            = IF /\ x >= calc.args[5] /\ x < calc.args[5] + calc.args[3]
                                 /\ y >= calc.args[6] /\ y < calc.args[6] + calc.args[4]
                              THEN PixelByte(calc.src, x - calc.args[5] + calc.args[1],
                                             y - calc.args[6] + calc.args[2], c)
                              ELSE PixelByte(before, x, y, c)

\* the same for the calls without a negative coordinate
BitbltExactFromZero ==
    (calc.fn = "bitblt" /\ \A i \in {1, 2, 5, 6} : calc.args[i] >= 0) => BitbltExact

\* a rectangle of 2 x 2 pixels within both images has been copied
BitbltCopied ==
    /\ calc.fn = "bitblt"
    /\ calc.phase = "done"
    /\ calc.args = <<1, 0, 2, 2, 0, 1>>
    /\ calc.thrown = "none"
    /\ calc.dst # BlitImage(calc.dst.width, calc.dst.height, 100)

\* C38: in a decode the error callback and the finished callback of the
\* Parser are never both called, and after the error callback the Parser
\* demands no read and calls no callback.
ErrorTerminal ==
    \A i \in DOMAIN rd.ctx.events :
        rd.ctx.events[i].ev = "error" =>
            /\ i = Len(rd.ctx.events)
            /\ ~Has(rd.ctx.events, "finished")
            /\ rd.ctx.reads = <<>>

\* the same for the decodes of parseSync, which gives the Parser no finished
\* callback
ErrorTerminalSync == origin.kind # "direct" => ErrorTerminal

\* a Parser with a finished callback has read an image whose IEND chunk
\* carries a wrong CRC
BadEndReached ==
    /\ origin.kind = "direct"
    /\ origin.layout = "plain"
    /\ origin.bad = 3
    /\ origin.keep < 0
    /\ origin.checkCRC
    /\ rd.phase = "done"
    /\ EventNames(rd.ctx.events)
            = <<"metadata", "headersFinished", "inflateData", "finished", "error">>

\* the data in the queue of a ChunkStream, the null of end() left out
QueuedData(p) ==
    Concat([i \in 1..Len(p.buffers) |->
                IF p.buffers[i] = NULL_BUFFER THEN <<>> ELSE p.buffers[i]])

\* the data handed to the read callbacks of p so far, in order
DeliveredData(p) == Concat([i \in 1..Len(p.served) |-> p.served[i].data])

\* what the host has written to the stream i so far
WrittenData(i) ==
    IF i = "a" THEN Slice(input, 0, host.pos)
    ELSE IF host.phase = "whole" THEN <<>> ELSE input

\* every demand answered so far got exactly its length, or at most its length
\* if it allowed less
ServedAsDemanded(p) ==
    \A i \in DOMAIN p.served :
        IF p.served[i].allowLess THEN Len(p.served[i].data) <= p.served[i].length
        ELSE Len(p.served[i].data) = p.served[i].length

\* what was delivered is the front of what was written
DeliveredInOrder(p, written) ==
    /\ Len(DeliveredData(p)) <= Len(written)
    /\ DeliveredData(p) = Slice(written, 0, Len(DeliveredData(p)))

\* C39 as stated: in every state of a chunk stream the buffered count is the
\* total length of the queued buffers, the data delivered to the read
\* callbacks is a prefix of the data written, and a demand for exactly N
\* bytes got N bytes, one for up to N bytes at most N.
ChunkStreamKept ==
    /\ \A i \in {"a", "b"} :
            /\ ps[i].buffered = Len(QueuedData(ps[i]))
            /\ DeliveredInOrder(ps[i], WrittenData(i))
            /\ ServedAsDemanded(ps[i])
    /\ rd.phase \in {"reading", "done"} =>
            /\ DeliveredInOrder(rd.ctx, input)
            /\ ServedAsDemanded(rd.ctx)

\* C39, amended: the same, the buffered count being the total length of the
\* queued buffers as long as the stream is not destroyed; and until then what
\* was delivered and what is queued are together what was written.
ChunkStreamKeptAlive ==
    /\ \A i \in {"a", "b"} :
            /\ ~ps[i].destroyed =>
                    /\ ps[i].buffered = Len(QueuedData(ps[i]))
                    /\ DeliveredData(ps[i]) \o QueuedData(ps[i]) = WrittenData(i)
            /\ DeliveredInOrder(ps[i], WrittenData(i))
            /\ ServedAsDemanded(ps[i])
    /\ rd.phase \in {"reading", "done"} =>
            /\ DeliveredInOrder(rd.ctx, input)
            /\ ServedAsDemanded(rd.ctx)
            /\ rd.ctx.thrown = "none" => DeliveredData(rd.ctx) \o rd.ctx.buffer = input

\* a stream written in three pieces, the first of one byte, has answered an
\* exact demand of 8 bytes from several buffers and a demand that allows less
\* with less than its length
ChunkStreamServed ==
    /\ Len(host.pieces) = 3
    /\ host.pieces[1] = 1
    /\ ~ps.a.destroyed
    /\ ps.a.served # <<>>
    /\ ~ps.a.served[1].allowLess
    /\ ps.a.served[1].length = 8
    /\ \E i \in DOMAIN ps.a.served :
            /\ ps.a.served[i].allowLess
            /\ Len(ps.a.served[i].data) > 0
            /\ Len(ps.a.served[i].data) < ps.a.served[i].length

\* C40 as stated: for every chunkSize and every maxLength the synchronous
\* inflater returns, and returns at most maxLength bytes, also when chunkSize
\* is below maxLength and the output spans several output chunks.
InflateWithinMaxLength ==
    (calc.fn = "inflateSync" /\ calc.phase = "done" /\ calc.args[2] >= 0) =>
        /\ calc.thrown = "none"
        /\ Len(calc.inflated) <= calc.args[2]

\* the same where the output fits one output chunk or maxLength is at most the
\* chunk size: the first maxLength bytes of the data are returned
InflateWithinOneChunk ==
    (/\ calc.fn = "inflateSync"
     /\ calc.phase = "done"
     /\ calc.args[2] >= 0
     /\ \/ Len(calc.bytes) - 1 < Inflate_chunkSize(calc.args[1])
        \/ calc.args[2] <= Inflate_chunkSize(calc.args[1])) =>
        /\ calc.thrown = "none"
        /\ calc.inflated = Slice(Tail(calc.bytes), 0, calc.args[2])

\* under a binding that does not check its bounds, 200 bytes were returned
\* for a maxLength of 150 and a chunk size of 64
InflateOverMaxLength ==
    /\ calc.fn = "inflateSync"
    /\ calc.phase = "done"
    /\ calc.args = <<64, 150, "unchecked">>
    /\ Len(calc.inflated) = MaxInflated

====
